---- MODULE Spec2Model ----
(***************************************************************************)
(* Model of the generation-orchestration and state-reconciliation pipeline *)
(* of ai-detail-page: the per-image retry executor and the batch scheduler *)
(* of services/geminiService.ts, and the application state machine, the    *)
(* undo/redo timeline, the saved-page list and the share link of App.tsx.  *)
(*                                                                         *)
(* Two specifications share the variables:                                 *)
(*   SpecGen  one submission at a time with generateVariedScenes run step  *)
(*            by step (every await of every launched item is a step);      *)
(*   Spec     the whole application, where a run of generateVariedScenes   *)
(*            settles in one step with one of its possible results.        *)
(*                                                                         *)
(* JavaScript indices are 0-based; sequences here are 1-based, so the      *)
(* element the source calls index i is element i + 1 of the sequence, and  *)
(* mainImageIndex, currentHistoryIndex, fromIndex, toIndex keep the        *)
(* source's 0-based values.                                                *)
(***************************************************************************)
EXTENDS Integers, Sequences, FiniteSets, TLC

(***************************************************************************)
(* Bounds of the model.                                                    *)
(***************************************************************************)
\* Scene prompts of one submission, by platform.  The source builds 12 for
\* coupang and 9 for smartstore; the model scales both.
CoupangScenes == 2
SmartstoreScenes == 1
\* Concurrency ceiling of the batch scheduler.  The source sets 12; the
\* model scales it so that a coupang run with a promotion spans two chunks.
BATCH_SIZE == 2
\* Submissions in one behaviour.
MaxRuns == 2
\* User gestures in one behaviour, requests in flight at once.
MaxOps == 5
MaxInflight == 1
MaxLines == 3
MaxStored == 4

(***************************************************************************)
(* Program constants.                                                      *)
(***************************************************************************)
maxAttemptsOffByOne == 3 - 1
\* line 898
maxAttempts == 3
\* A polling loop that checks once more.
pollMaxAttemptsOneMore == 60 + 1
\* geminiService.ts line 121: maxAttempts of waitForNanoBananaTask
pollMaxAttempts == 60
\* App.tsx line 158: slice(-50)
timelineCap == 50
\* App.tsx line 161: Math.min(prev + 1, 49)
maxHistoryIndex == 49
\* App.tsx line 340: slice(0, 200)
historyCap == 200
\* App.tsx line 376: slice(0, 4)
shareImageCap == 4

Min2(a, b) == IF a < b THEN a ELSE b
Max2(a, b) == IF a > b THEN a ELSE b

(***************************************************************************)
(* Values.                                                                 *)
(***************************************************************************)
\* A URL: an externally hosted one (scheme "http") is the result of a
\* provider job, identified by the run and the request that asked for it;
\* a "data" URL is inline-encoded image data.
HttpUrl(run, idx) == [scheme |-> "http", run |-> run, idx |-> idx]

\* url.startsWith('data:')
startsWithData(url) == url.scheme = "data"

\* The SVG placeholder for failed generations, a data: URI.
getFallbackImage == [scheme |-> "data", run |-> 0, idx |-> 0]

\* The value of a generatedImages element that was never assigned (a hole
\* of a sparse array, read as undefined).
NoImage == [url |-> [scheme |-> "none", run |-> 0, idx |-> 0],
            prompt |-> [kind |-> "none", n |-> 0, token |-> <<>>]]

\* Prompts.
ScenePrompt(n) == [kind |-> "scene", n |-> n, token |-> <<>>]
promoPrompt == [kind |-> "promo", n |-> 0, token |-> <<>>]
CustomPrompt(n) == [kind |-> "custom", n |-> n, token |-> <<>>]

\* Error messages.  kind "CREDITS_INSUFFICIENT" is the message of exactly
\* that text; an "api" message is `Nano Banana API ...: ${status} - ${detail}`.
Err(kind, status, detail) == [kind |-> kind, status |-> status, detail |-> detail]
CREDITS_INSUFFICIENT == Err("CREDITS_INSUFFICIENT", 0, "")

\* errorMessage.toLowerCase() includes "insufficient", "credits", "top up"
\* or "credit"
mentionsCredit(detail) == detail \in {"Insufficient credits", "Please top up"}

(***************************************************************************)
(* Provider gateway: what one call of generateSingleScene does with the    *)
(* provider's answers.                                                     *)
(***************************************************************************)
\* Answers of the job-creation request.
CreateResponses ==
    { [ok |-> TRUE,  http |-> 200, detail |-> ""],
      [ok |-> FALSE, http |-> 429, detail |-> "Too many requests"],
      [ok |-> FALSE, http |-> 500, detail |-> "Internal error"],
      [ok |-> FALSE, http |-> 402, detail |-> "Insufficient credits"],
      [ok |-> FALSE, http |-> 200, detail |-> "Please top up"],
      [ok |-> FALSE, http |-> 200, detail |-> "Invalid input"] }

\* What polling a created job ends with.
JobOutcomes == {"urls", "empty", "fail", "failCredits", "pending"}

\* No key in localStorage and none in the environment: getNanoBananaApiKey
\* throws and no request is made (lines 9-23, 30).
NoApiKey == [ok |-> FALSE, http |-> 0, detail |-> "API key missing"]

ProviderResponses ==
    { [create |-> c, job |-> j] : c \in {x \in CreateResponses : x.ok}, j \in JobOutcomes }
    \cup { [create |-> c, job |-> "none"] : c \in {x \in CreateResponses : ~x.ok} }
    \cup { [create |-> NoApiKey, job |-> "none"] }

Return(url) == [kind |-> "return", url |-> url, msg |-> Err("", 0, "")]
Throw(msg) == [kind |-> "throw", url |-> getFallbackImage, msg |-> msg]

createNanoBananaTask(c) ==
    IF c = NoApiKey THEN Throw(Err("config", 0, c.detail))
    ELSE IF c.ok THEN Return(getFallbackImage)
    ELSE IF mentionsCredit(c.detail) THEN Throw(CREDITS_INSUFFICIENT)
    ELSE IF c.http # 200 THEN Throw(Err("api", c.http, c.detail))
    ELSE Throw(Err("api", 0, c.detail))

\* resultUrls, or the thrown error.  The returned url stands for resultUrls[0];
\* scheme "none" stands for the empty list.
waitForNanoBananaTask(j, fresh) ==
    CASE j = "urls" -> Return(fresh)
      [] j = "empty" -> Return(NoImage.url)
      [] j = "fail" -> Throw(Err("job", 0, "generation failed"))
      [] j = "failCredits" -> Throw(Err("job", 0, "Insufficient credits"))
      [] OTHER -> Throw(Err("timeout", 0, ""))

\* fresh is the URL the provider hosts the result of this request under.
generateSingleScene(resp, fresh) ==
    LET task == createNanoBananaTask(resp.create)
        res == waitForNanoBananaTask(resp.job, fresh)
    IN  IF task.kind = "throw" THEN task
        ELSE IF res.kind = "throw" THEN res
        ELSE IF res.url.scheme = "none" THEN Return(getFallbackImage)
        ELSE Return(res.url)

\* editProductImage refuses the placeholder graphic (lines 969-971).
isSvgPlaceholder(url) == url = getFallbackImage

\* editProductImage once the image is accepted: the edit job and its result.
editProductImage(resp, fresh) ==
    LET task == createNanoBananaTask(resp.create)
        res == waitForNanoBananaTask(resp.job, fresh)
    IN  IF task.kind = "throw" THEN task
        ELSE IF res.kind = "throw" THEN res
        ELSE IF res.url.scheme = "none" THEN Return(getFallbackImage)
        ELSE Return(res.url)

(***************************************************************************)
(* Application state (App.tsx) and the state of one pipeline run.          *)
(***************************************************************************)
VARIABLES
    state,                \* AppState
    stateHistory,         \* undo/redo timeline: sequence of AppState
    currentHistoryIndex,  \* cursor into stateHistory, 0-based, -1 when empty
    isUndoRedoAction,     \* recording is suppressed for the next observation
    history,              \* the saved-page list, newest first
    inflight,             \* regenerate / AI-edit requests awaiting their result
    clipboard,            \* the share link last copied
    storage,              \* localStorage item detailpage_history
    mounted,              \* the mount effects of this page load have run
    shareParam,           \* the share parameter of the address
    ops,                  \* user gestures so far
    layout,               \* the slots DetailPagePreview last assigned
    lastAlert,            \* the message last shown with alert()
    runId,                \* submissions made so far
    submitPc,             \* handleInputSubmit: "idle" or "awaiting" Promise.all
    copyP,                \* the promise of generateMarketingCopy
    scenesP,              \* the promise of generateVariedScenes
    selectedPrompts,      \* generateVariedScenes: the prompt list
    items,                \* launched generateWithRetry calls, by prompt position
    chunkStart,           \* generateVariedScenes: i of the batch loop
    results,              \* generateVariedScenes: results
    schedPc,              \* generateVariedScenes: where the run stands
    settled,              \* the launched calls in the order they settled
    poll,                 \* waitForNanoBananaTask: the wait of the call that is polling
    saveEffect            \* the save effect of the saved-page list, when it is stepped

\* No call is polling.  attempt is the loop variable of line 123, checks the
\* status checks made for the prompt so far, waiting whether all of them
\* were answered with a state other than success and fail, thrown the error
\* the last wait ended with.
NoPoll == [attempt |-> 0, checks |-> 0, waiting |-> TRUE, thrown |-> "none"]

\* The save effect is not due.  room is the number of entries local storage
\* has room for, writes the writes attempted so far.
NoSaveEffect == [due |-> FALSE, room |-> 0, writes |-> 0]

\* A user gesture: the model explores the first MaxOps of them.
Gesture == ops < MaxOps /\ ops' = ops + 1

appVars == <<state, stateHistory, currentHistoryIndex, isUndoRedoAction,
             history, inflight, clipboard, storage, mounted, shareParam, ops,
             lastAlert>>
mountVars == <<mounted, shareParam>>
pageVars == <<history, inflight, clipboard, storage, mountVars>>
envVars == <<pageVars, ops>>
runVars == <<runId, submitPc, copyP, scenesP>>
genVars == <<selectedPrompts, items, chunkStart, results, schedPc, settled>>
vars == <<layout, state, stateHistory, currentHistoryIndex, isUndoRedoAction,
          history, inflight, clipboard, storage, mounted, shareParam, ops,
          lastAlert, runId, submitPc, copyP,
          scenesP, selectedPrompts, items, chunkStart, results, schedPc, settled,
          poll, saveEffect>>

\* generatedCopy: null
NoCopy == [run |-> 0, headline |-> ""]

\* No share link.
NoToken == [present |-> FALSE]

\* An uploaded source photo (inline data).
SrcImage == [scheme |-> "data", run |-> 0, idx |-> 1]

emptyProductData ==
    [name |-> "", platform |-> "coupang", promotionText |-> "", images |-> <<>>]

\* What the input form can submit.
ProductRequests ==
    { [name |-> "p", platform |-> pf, promotionText |-> t, images |-> <<SrcImage>>] :
        pf \in {"coupang", "smartstore"}, t \in {"", " ", "sale"} }

\* imgRef and copyRef are the identities of the generatedImages array and of
\* the generatedCopy object: the auto-save effect compares them, not the values.
\* copyRef 0 is null.
initialState ==
    [step |-> "input", productData |-> emptyProductData, originalImages |-> <<>>,
     generatedImages |-> <<>>, imgRef |-> 0, mainImageIndex |-> 0,
     generatedCopy |-> NoCopy, copyRef |-> 0, isEditingImage |-> FALSE]

Pending == [st |-> "pending", err |-> Err("", 0, "")]
NoPromise == [st |-> "none", err |-> Err("", 0, "")]
Fulfilled == [st |-> "fulfilled", err |-> Err("", 0, "")]
Rejected(e) == [st |-> "rejected", err |-> e]

Range(f) == {f[x] : x \in DOMAIN f}

MinOf(S) == CHOOSE x \in S : \A y \in S : x <= y

\* The identity of a newly allocated array or object: one that no live value has.
usedImgRefs ==
    {state.imgRef} \cup {s.imgRef : s \in Range(stateHistory)}
                   \cup {h.imgRef : h \in Range(history)}
usedCopyRefs ==
    {0, state.copyRef} \cup {s.copyRef : s \in Range(stateHistory)}
                       \cup {h.copyRef : h \in Range(history)}
freshRef(used) == MinOf({n \in 0..Cardinality(used) : n \notin used})

(***************************************************************************)
(* The auto-save effect, run after the render that follows a state update. *)
(* new is the state rendered, flag and index the values of                 *)
(* isUndoRedoAction and currentHistoryIndex in that render.                *)
(***************************************************************************)
\* A timeline that keeps the entries after the cursor.
recordSnapshotNoBranch(prev, index, new) ==
    LET appended == Append(prev, new)
    IN  SubSeq(appended, Max2(1, Len(appended) - timelineCap + 1), Len(appended))

\* A timeline that grows without limit.
recordSnapshotUncapped(prev, index, new) ==
    Append(SubSeq(prev, 1, Min2(Max2(index + 1, 0), Len(prev))), new)

\* A timeline that keeps its oldest entries when it is full.
recordSnapshotKeepOldest(prev, index, new) ==
    LET newHistory == SubSeq(prev, 1, Min2(Max2(index + 1, 0), Len(prev)))
        appended == Append(newHistory, new)
    IN  SubSeq(appended, 1, Min2(timelineCap, Len(appended)))

recordSnapshot(prev, index, new) ==
    LET newHistory == SubSeq(prev, 1, Min2(Max2(index + 1, 0), Len(prev)))
        appended == Append(newHistory, new)
    IN  SubSeq(appended, Max2(1, Len(appended) - timelineCap + 1), Len(appended))

Render(new, flag, index) ==
    /\ state' = new
    /\ IF new.imgRef # state.imgRef \/ new.copyRef # state.copyRef
       THEN IF flag
            THEN /\ isUndoRedoAction' = FALSE
                 /\ stateHistory' = stateHistory
                 /\ currentHistoryIndex' = index
            ELSE IF new.step = "preview" /\ Len(new.generatedImages) > 0
            THEN /\ isUndoRedoAction' = flag
                 /\ stateHistory' = recordSnapshot(stateHistory, index, new)
                 /\ currentHistoryIndex' = Min2(index + 1, maxHistoryIndex)
            ELSE /\ isUndoRedoAction' = flag
                 /\ stateHistory' = stateHistory
                 /\ currentHistoryIndex' = index
       ELSE /\ isUndoRedoAction' = flag
            /\ stateHistory' = stateHistory
            /\ currentHistoryIndex' = index

\* A state update made by an edit: no undo/redo in the same batch.
Update(new) == Render(new, isUndoRedoAction, currentHistoryIndex)

(***************************************************************************)
(* handleInputSubmit.                                                      *)
(***************************************************************************)
\* A submission that shows the preview at once.
submitStateToPreview(prev, data, ref) ==
    [prev EXCEPT !.step = "preview", !.productData = data,
                 !.originalImages = data.images, !.generatedImages = <<>>,
                 !.imgRef = ref, !.mainImageIndex = 0]

\* lines 179-186
submitState(prev, data, ref) ==
    [prev EXCEPT !.step = "processing", !.productData = data,
                 !.originalImages = data.images, !.generatedImages = <<>>,
                 !.imgRef = ref, !.mainImageIndex = 0]

\* A commit that sets the images and leaves the copy for a later update.
commitStateImagesOnly(prev, copy, allImages, iref, cref) ==
    [prev EXCEPT !.step = "preview", !.generatedImages = allImages, !.imgRef = iref]

\* lines 199-204
commitState(prev, copy, allImages, iref, cref) ==
    [prev EXCEPT !.step = "preview", !.generatedCopy = copy, !.copyRef = cref,
                 !.generatedImages = allImages, !.imgRef = iref]

\* error.message includes "CREDITS_INSUFFICIENT", "insufficient" or "credits"
isCreditsError(e) ==
    e.kind = "CREDITS_INSUFFICIENT" \/ e.detail = "Insufficient credits"

\* The rest of handleInputSubmit once Promise.all settles: cP and sP are the
\* two promises, copy and scenes their values.
AfterPromiseAll(cP, sP, copy, scenes) ==
    IF submitPc = "awaiting" /\ (cP.st = "rejected" \/ sP.st = "rejected")
    THEN LET error == IF cP.st = "rejected" THEN cP.err ELSE sP.err
         IN  /\ lastAlert' = IF isCreditsError(error) THEN "credits" ELSE "generic"
             /\ Update([state EXCEPT !.step = "input"])
             /\ submitPc' = "idle"
    ELSE IF submitPc = "awaiting" /\ cP.st = "fulfilled" /\ sP.st = "fulfilled"
    THEN /\ Update(commitState(state, copy, scenes,
                               freshRef(usedImgRefs), freshRef(usedCopyRefs)))
         /\ submitPc' = "idle"
         /\ lastAlert' = lastAlert
    ELSE /\ UNCHANGED <<state, stateHistory, currentHistoryIndex, isUndoRedoAction>>
         /\ submitPc' = submitPc
         /\ lastAlert' = lastAlert

\* The copy of a run: JSON.parse of the text backend's answer.
copyOf(run) == [run |-> run, headline |-> "generated"]

\* generateMarketingCopy settles.
CopySettles(ok) ==
    /\ UNCHANGED <<layout, poll, saveEffect>>
    /\ copyP.st = "pending"
    /\ copyP' = IF ok THEN Fulfilled ELSE Rejected(Err("copy", 0, ""))
    /\ AfterPromiseAll(copyP', scenesP, copyOf(runId), results)
    /\ UNCHANGED <<envVars, runId, scenesP, genVars>>

(***************************************************************************)
(* generateVariedScenes, step by step.                                     *)
(***************************************************************************)
\* text.trim(): " " stands for a text of white space only
trim(text) == IF text = " " THEN "" ELSE text

\* promotionText && promotionText.trim().length > 0
hasPromotion(data) == data.promotionText # "" /\ trim(data.promotionText) # ""

\* A promotion prompt put behind the scene prompts.
withPromotionLast(data, prompts) ==
    IF hasPromotion(data) THEN prompts \o <<promoPrompt>> ELSE prompts

\* lines 889-893
withPromotion(data, prompts) ==
    IF hasPromotion(data) THEN <<promoPrompt>> \o prompts ELSE prompts

\* line 903: the prompt of one attempt
uniquePrompt(prompt, index, attempts) == [prompt EXCEPT !.token = <<index, attempts>>]

\* The kind of the generator's answer: a URL, or the error thrown at line 908.
classOf(r) ==
    IF r.kind = "return" THEN (IF startsWithData(r.url) THEN "okFallback" ELSE "ok")
    ELSE IF r.msg.kind = "CREDITS_INSUFFICIENT" THEN "credits"
    ELSE IF r.msg.kind = "config" THEN "config"
    ELSE IF mentionsCredit(r.msg.detail) THEN "creditsMessage"
    ELSE IF r.msg.kind = "api" /\ r.msg.status = 429 THEN "rate"
    ELSE "other"

\* A call of generateWithRetry(prompt, index) at its first attempt.
\* calls counts the generator calls made, rates those answered with a
\* rate-limit error, and last is classOf the latest answer.
newItem(prompt) ==
    [pc |-> "call", prompt |-> prompt, attempts |-> 0, calls |-> 0, rates |-> 0,
     last |-> "none", sent |-> prompt, result |-> NoImage]

placeholderResultUnique(prompt, sent) == [url |-> getFallbackImage, prompt |-> sent]

\* lines 927-930 and 939
placeholderResult(prompt, sent) == [url |-> getFallbackImage, prompt |-> prompt]

\* lines 906-907
successResult(prompt, sent, image) == [url |-> image, prompt |-> prompt]

\* line 912: e.message === "CREDITS_INSUFFICIENT"
isCreditsExhaustedNever(e) == FALSE
isCreditsExhausted(e) == e = CREDITS_INSUFFICIENT

\* e.message?.includes('429') || e.message?.includes('Resource has been exhausted')
isRateLimit(e) == e.kind = "api" /\ e.status = 429

\* One attempt of generateWithRetry: it is the call's state, sent the prompt
\* handed to the generator and r the generator's answer (lines 901-935).
retryAttempt(it, sent, r) ==
    LET logged == [it EXCEPT !.calls = it.calls + 1, !.last = classOf(r), !.sent = sent,
                             !.rates = it.rates + (IF classOf(r) = "rate" THEN 1 ELSE 0)]
        attempts == it.attempts + 1
        failed == [logged EXCEPT !.attempts = attempts]
    IN  IF r.kind = "return"
        THEN [logged EXCEPT !.pc = "done", !.result = successResult(it.prompt, sent, r.url)]
        ELSE IF isCreditsExhausted(r.msg)
        THEN [failed EXCEPT !.pc = "thrown"]
        ELSE IF isRateLimit(r.msg) /\ attempts < maxAttempts
        THEN [failed EXCEPT !.pc = "backoff"]
        ELSE IF attempts >= maxAttempts
        THEN [failed EXCEPT !.pc = "done", !.result = placeholderResult(it.prompt, sent)]
        ELSE [failed EXCEPT !.pc = "delay"]

\* The wait is over: the while condition of line 900, and line 939 behind it.
retryResume(it) ==
    IF it.attempts < maxAttempts THEN [it EXCEPT !.pc = "call"]
    ELSE [it EXCEPT !.pc = "done", !.result = placeholderResult(it.prompt, it.sent)]

\* A chunk that takes every prompt that is left.
chunkOfWhole(i, n) == (i + 1) .. n

\* Positions (1-based) of the chunk that starts at i (lines 947-949).
chunkOf(i, n) == (i + 1) .. Min2(i + BATCH_SIZE, n)

launch(its, i, prompts) ==
    [k \in (DOMAIN its) \cup chunkOf(i, Len(prompts)) |->
        IF k \in chunkOf(i, Len(prompts)) THEN newItem(prompts[k]) ELSE its[k]]

chunkResultsReversed(its, i, n) ==
    [k \in 1 .. (Min2(i + BATCH_SIZE, n) - i) |-> its[Min2(i + BATCH_SIZE, n) + 1 - k].result]

\* line 951: the values of Promise.all, in the order of the promises
chunkResults(its, i, n) ==
    [k \in 1 .. (Min2(i + BATCH_SIZE, n) - i) |-> its[i + k].result]

\* line 951: Promise.all rejects as soon as one of its promises does
chunkRejectedNever(its, chunk, k) == FALSE
chunkRejected(its, chunk, k) == k \in chunk /\ its[k].pc = "thrown"

\* What the scheduler does when a launched call settles (lines 951-960):
\* its are the calls after the step, k the one that stepped.
SchedulerAfter(its, k) ==
    LET n == Len(selectedPrompts)
        chunk == chunkOf(chunkStart, n)
    IN  IF schedPc = "awaitChunk" /\ chunkRejected(its, chunk, k)
        THEN /\ schedPc' = "rejected"
             /\ results' = results
             /\ scenesP' = Rejected(CREDITS_INSUFFICIENT)
        ELSE IF schedPc = "awaitChunk" /\ \A j \in chunk : its[j].pc = "done"
        THEN /\ results' = results \o chunkResults(its, chunkStart, n)
             /\ IF chunkStart + BATCH_SIZE < n
                THEN /\ schedPc' = "pause"
                     /\ scenesP' = scenesP
                ELSE /\ schedPc' = "returned"
                     /\ scenesP' = Fulfilled
        ELSE /\ schedPc' = schedPc
             /\ results' = results
             /\ scenesP' = scenesP

\* handleInputSubmit up to Promise.all; generateVariedScenes awaits the
\* custom scene prompts.
handleInputSubmit(data) ==
    /\ UNCHANGED <<layout, poll, saveEffect>>
    /\ Gesture
    /\ mounted
    /\ state.step = "input"
    /\ runId < MaxRuns
    /\ runId' = runId + 1
    /\ Update(submitState(state, data, freshRef(usedImgRefs)))
    /\ submitPc' = "awaiting"
    /\ copyP' = Pending
    /\ scenesP' = Pending
    /\ selectedPrompts' = <<>>
    /\ items' = <<>>
    /\ chunkStart' = 0
    /\ results' = <<>>
    /\ schedPc' = "prompts"
    /\ settled' = <<>>
    /\ UNCHANGED <<pageVars, lastAlert>>

\* line 854
sceneCount(platform) == IF platform = "coupang" THEN CoupangScenes ELSE SmartstoreScenes

\* generateCustomScenePrompts (lines 805-846): the usable lines of the text
\* backend's answer, at most count of them; none if the backend failed.
generateCustomScenePrompts(lines, count) ==
    [k \in 1 .. Min2(lines, count) |-> CustomPrompt(k)]

\* lines 856-893: the custom prompts, or count prompts of the fallback pool if
\* there is none, and the promotion prompt before them
buildPrompts(data, lines) ==
    LET count == sceneCount(data.platform)
        customPrompts == generateCustomScenePrompts(lines, count)
        fallbackPool == [k \in 1 .. count |-> ScenePrompt(k)]
    IN  withPromotion(data,
            IF Len(customPrompts) > 0
            THEN SubSeq(customPrompts, 1, Min2(count, Len(customPrompts)))
            ELSE fallbackPool)

\* The scene prompts are there: the prompt list is built and the first chunk
\* launched.
ScenePromptsReady(lines) ==
    /\ UNCHANGED <<layout, poll, saveEffect>>
    /\ schedPc = "prompts"
    /\ selectedPrompts' = buildPrompts(state.productData, lines)
    /\ items' = launch(<<>>, 0, selectedPrompts')
    /\ schedPc' = "awaitChunk"
    /\ UNCHANGED <<appVars, runVars, chunkStart, results, settled>>

\* generateSingleScene has answered the attempt of call k with r: the try
\* or the catch of generateWithRetry, and what the scheduler and
\* handleInputSubmit do when the call settles.
AttemptEnds(k, r) ==
    /\ LET it == items[k]
           sent == uniquePrompt(it.prompt, k - 1, it.attempts)
       IN  items' = [items EXCEPT ![k] = retryAttempt(it, sent, r)]
    /\ settled' = IF items'[k].pc \in {"done", "thrown"} THEN Append(settled, k) ELSE settled
    /\ SchedulerAfter(items', k)
    /\ AfterPromiseAll(copyP, scenesP', copyOf(runId), results')
    /\ UNCHANGED <<envVars, runId, copyP, selectedPrompts, chunkStart>>

\* The generator answers the pending attempt of call k.
Attempt(k, resp) ==
    /\ UNCHANGED <<layout, poll, saveEffect>>
    /\ k \in DOMAIN items
    /\ items[k].pc = "call"
    /\ AttemptEnds(k, generateSingleScene(resp, HttpUrl(runId, k)))

\* The backoff or the flat delay of call k is over.
Resume(k) ==
    /\ UNCHANGED <<layout, poll, saveEffect>>
    /\ k \in DOMAIN items
    /\ items[k].pc \in {"backoff", "delay"}
    /\ items' = [items EXCEPT ![k] = retryResume(items[k])]
    /\ settled' = IF items'[k].pc \in {"done", "thrown"} THEN Append(settled, k) ELSE settled
    /\ SchedulerAfter(items', k)
    /\ AfterPromiseAll(copyP, scenesP', copyOf(runId), results')
    /\ UNCHANGED <<envVars, runId, copyP, selectedPrompts, chunkStart>>

\* The pause between two chunks is over (lines 955-957, then 947-949).
NextChunk ==
    /\ UNCHANGED <<layout, poll, saveEffect>>
    /\ schedPc = "pause"
    /\ chunkStart' = chunkStart + BATCH_SIZE
    /\ items' = launch(items, chunkStart', selectedPrompts)
    /\ schedPc' = "awaitChunk"
    /\ UNCHANGED <<appVars, runVars, selectedPrompts, results, settled>>

(***************************************************************************)
(* handleReset.                                                            *)
(***************************************************************************)
\* A reset that empties the page and keeps the product request.
resetStateKeepsRequest(ref) ==
    [initialState EXCEPT !.imgRef = ref, !.productData = state.productData]

\* lines 436-454: the object handleReset sets, with a new generatedImages array
resetState(ref) == [initialState EXCEPT !.imgRef = ref]

\* The preview, with its buttons, is rendered (App.tsx line 625).
previewShown ==
    /\ state.step = "preview"
    /\ state.generatedCopy # NoCopy
    /\ Len(state.generatedImages) > 0

handleReset ==
    /\ UNCHANGED <<layout, poll, saveEffect>>
    /\ Gesture
    /\ previewShown
    /\ Update(resetState(freshRef(usedImgRefs)))
    /\ UNCHANGED <<pageVars, lastAlert, runVars, genVars>>


(***************************************************************************)
(* Arrays.  index is 0-based, as in the source.                            *)
(***************************************************************************)
\* seq[index], undefined when out of range
At(seq, index) == IF index \in 0 .. (Len(seq) - 1) THEN seq[index + 1] ELSE NoImage

\* a copy of seq with seq[index] = value; assigning past the end leaves holes
assignAt(seq, index, value) ==
    [k \in 1 .. Max2(Len(seq), index + 1) |->
        IF k = index + 1 THEN value ELSE IF k <= Len(seq) THEN seq[k] ELSE NoImage]

\* seq.splice(index, 1) on a copy: what is left
removeAt(seq, index) ==
    IF index \in 0 .. (Len(seq) - 1)
    THEN [k \in 1 .. (Len(seq) - 1) |-> IF k <= index THEN seq[k] ELSE seq[k + 1]]
    ELSE seq

\* seq.splice(index, 0, value) on a copy
insertAt(seq, index, value) ==
    LET at == Min2(index, Len(seq))
    IN  [k \in 1 .. (Len(seq) + 1) |->
            IF k <= at THEN seq[k] ELSE IF k = at + 1 THEN value ELSE seq[k - 1]]

\* img.url && !img.url.startsWith('data:')
isExternal(img) == img.url.scheme # "none" /\ ~startsWithData(img.url)

\* images.filter(isExternal): the kept elements in order; holes are skipped
RECURSIVE externalImages(_)
externalImages(images) ==
    IF images = <<>> THEN <<>>
    ELSE IF images[1] # NoImage /\ isExternal(images[1])
         THEN <<images[1]>> \o externalImages(Tail(images))
         ELSE externalImages(Tail(images))

(***************************************************************************)
(* Edits of the preview.                                                   *)
(***************************************************************************)
\* handleImageUpdate, lines 224-229
imageUpdateState(prev, newImageUrl, index, ref) ==
    [prev EXCEPT !.generatedImages =
                    assignAt(prev.generatedImages, index,
                             [At(prev.generatedImages, index) EXCEPT !.url = newImageUrl]),
                 !.imgRef = ref]

\* A remapping that follows the main image only when it is the one dragged.
reorderMainIndexDraggedOnly(mainImageIndex, fromIndex, toIndex) ==
    IF fromIndex = mainImageIndex THEN toIndex ELSE mainImageIndex

\* lines 239-246
reorderMainIndex(mainImageIndex, fromIndex, toIndex) ==
    IF fromIndex = mainImageIndex THEN toIndex
    ELSE IF fromIndex < mainImageIndex /\ toIndex >= mainImageIndex THEN mainImageIndex - 1
    ELSE IF fromIndex > mainImageIndex /\ toIndex <= mainImageIndex THEN mainImageIndex + 1
    ELSE mainImageIndex

\* lines 234-236
reorderImages(images, fromIndex, toIndex) ==
    insertAt(removeAt(images, fromIndex), toIndex, At(images, fromIndex))

\* handleImageReorder, lines 233-253
reorderState(prev, fromIndex, toIndex, ref) ==
    [prev EXCEPT !.generatedImages = reorderImages(prev.generatedImages, fromIndex, toIndex),
                 !.imgRef = ref,
                 !.mainImageIndex = reorderMainIndex(prev.mainImageIndex, fromIndex, toIndex)]

\* lines 269-273
regenerateState(prev, index, newImageUrl, prompt, ref) ==
    [prev EXCEPT !.generatedImages =
                    assignAt(prev.generatedImages, index,
                             [url |-> newImageUrl, prompt |-> prompt]),
                 !.imgRef = ref, !.isEditingImage = FALSE]

canEdit == mounted /\ previewShown

\* The drop of a dragged thumbnail (handleDrop), then handleImageReorder.
handleImageReorder(fromIndex, toIndex) ==
    /\ UNCHANGED <<layout, poll, saveEffect>>
    /\ Gesture
    /\ canEdit
    /\ fromIndex \in 0 .. (Len(state.generatedImages) - 1)
    /\ toIndex \in 0 .. (Len(state.generatedImages) - 1)
    /\ fromIndex # toIndex
    /\ Update(reorderState(state, fromIndex, toIndex, freshRef(usedImgRefs)))
    /\ UNCHANGED <<pageVars, lastAlert, runVars, genVars>>

\* A click on thumbnail index.
handleMainImageSelect(index) ==
    /\ UNCHANGED <<layout, poll, saveEffect>>
    /\ Gesture
    /\ mounted /\ previewShown
    /\ index \in 0 .. (Len(state.generatedImages) - 1)
    /\ Update([state EXCEPT !.mainImageIndex = index])
    /\ UNCHANGED <<pageVars, lastAlert, runVars, genVars>>

\* handleCopyUpdate, lines 282-285: a refined section arrives
copyUpdateState(prev, newData, ref) ==
    IF prev.generatedCopy # NoCopy
    THEN [prev EXCEPT !.generatedCopy = [prev.generatedCopy EXCEPT !.headline = newData],
                      !.copyRef = ref]
    ELSE prev

handleCopyUpdate(newData) ==
    /\ UNCHANGED <<layout, poll, saveEffect>>
    /\ Gesture
    /\ canEdit
    /\ Update(copyUpdateState(state, newData, freshRef(usedCopyRefs)))
    /\ UNCHANGED <<pageVars, lastAlert, runVars, genVars>>

\* The URL the provider hosts the result of a regenerate or AI edit of image
\* index under.
EditUrl(run, index) == HttpUrl(run, 0 - (index + 1))

\* handleRegenerateImage up to its await (lines 257-266), from the controls
\* of image index: the prompt is the image's own.
StartRegenerate(index) ==
    /\ UNCHANGED <<layout, poll, saveEffect>>
    /\ canEdit
    /\ Cardinality(inflight) < MaxInflight
    /\ Gesture
    /\ index \in 0 .. (Len(state.generatedImages) - 1)
    /\ At(state.generatedImages, index) # NoImage
    /\ inflight' = inflight \cup
          {[kind |-> "regenerate", index |-> index, run |-> runId,
            prompt |-> At(state.generatedImages, index).prompt]}
    /\ Update([state EXCEPT !.isEditingImage = TRUE])
    /\ UNCHANGED <<history, clipboard, storage, mountVars, lastAlert, runVars, genVars>>

\* The generator answers a regenerate: lines 266-278.
FinishRegenerate(req, resp) ==
    /\ UNCHANGED <<layout, poll, saveEffect>>
    /\ req \in inflight
    /\ req.kind = "regenerate"
    /\ inflight' = inflight \ {req}
    /\ LET r == generateSingleScene(resp, EditUrl(req.run, req.index))
       IN  IF r.kind = "return"
           THEN /\ Update(regenerateState(state, req.index, r.url, req.prompt,
                                          freshRef(usedImgRefs)))
                /\ lastAlert' = lastAlert
           ELSE /\ Update([state EXCEPT !.isEditingImage = FALSE])
                /\ lastAlert' = "regenerateFailed"
    /\ UNCHANGED <<history, ops, clipboard, storage, mountVars, runVars, genVars>>

\* ImageFeedbackControl.handleEdit up to its await; editProductImage refuses
\* the placeholder at once, which handleEdit reports.
StartEdit(index) ==
    /\ UNCHANGED <<layout, poll, saveEffect>>
    /\ canEdit
    /\ Cardinality(inflight) < MaxInflight
    /\ Gesture
    /\ index \in 0 .. (Len(state.generatedImages) - 1)
    /\ At(state.generatedImages, index) # NoImage
    /\ IF isSvgPlaceholder(At(state.generatedImages, index).url)
       THEN /\ lastAlert' = "editFailed"
            /\ inflight' = inflight
       ELSE /\ lastAlert' = lastAlert
            /\ inflight' = inflight \cup
                  {[kind |-> "edit", index |-> index, run |-> runId,
                    prompt |-> At(state.generatedImages, index).prompt]}
    /\ UNCHANGED <<state, stateHistory, currentHistoryIndex, isUndoRedoAction,
                   history, clipboard, storage, mountVars, runVars, genVars>>

\* editProductImage answers: onUpdate(newImage, imageIndex), or the alert.
FinishEdit(req, resp) ==
    /\ UNCHANGED <<layout, poll, saveEffect>>
    /\ req \in inflight
    /\ req.kind = "edit"
    /\ inflight' = inflight \ {req}
    /\ LET r == editProductImage(resp, EditUrl(req.run, req.index))
       IN  IF r.kind = "return"
           THEN /\ Update(imageUpdateState(state, r.url, req.index, freshRef(usedImgRefs)))
                /\ lastAlert' = lastAlert
           ELSE /\ UNCHANGED <<state, stateHistory, currentHistoryIndex, isUndoRedoAction>>
                /\ lastAlert' = "editFailed"
    /\ UNCHANGED <<history, ops, clipboard, storage, mountVars, runVars, genVars>>

(***************************************************************************)
(* Undo and redo.                                                          *)
(***************************************************************************)
\* An undo that moves the cursor but leaves the page on show.
handleUndoKeepsState ==
    /\ UNCHANGED <<layout, poll, saveEffect>>
    /\ Gesture
    /\ mounted /\ previewShown
    /\ IF currentHistoryIndex > 0
       THEN Render(stateHistory[currentHistoryIndex + 1], TRUE, currentHistoryIndex - 1)
       ELSE UNCHANGED <<state, stateHistory, currentHistoryIndex, isUndoRedoAction>>
    /\ UNCHANGED <<pageVars, lastAlert, runVars, genVars>>

handleUndo ==
    /\ UNCHANGED <<layout, poll, saveEffect>>
    /\ Gesture
    /\ mounted /\ previewShown
    /\ IF currentHistoryIndex > 0
       THEN Render(stateHistory[currentHistoryIndex], TRUE, currentHistoryIndex - 1)
       ELSE UNCHANGED <<state, stateHistory, currentHistoryIndex, isUndoRedoAction>>
    /\ UNCHANGED <<pageVars, lastAlert, runVars, genVars>>

\* line 303: stateHistory[currentHistoryIndex + 1], the snapshot a redo shows
redoSnapshot(timeline, index) == timeline[index + 2]

handleRedo ==
    /\ UNCHANGED <<layout, poll, saveEffect>>
    /\ Gesture
    /\ mounted /\ previewShown
    /\ IF currentHistoryIndex < Len(stateHistory) - 1
       THEN Render(redoSnapshot(stateHistory, currentHistoryIndex), TRUE,
                   currentHistoryIndex + 1)
       ELSE UNCHANGED <<state, stateHistory, currentHistoryIndex, isUndoRedoAction>>
    /\ UNCHANGED <<pageVars, lastAlert, runVars, genVars>>

\* The undo and redo buttons of the preview are disabled at the ends of the
\* timeline (App.tsx 654-655, DetailPagePreview.tsx 944-970).
canUndo == currentHistoryIndex > 0
canRedo == currentHistoryIndex < Len(stateHistory) - 1
onUndo == canUndo /\ handleUndo
onRedo == canRedo /\ handleRedo

(***************************************************************************)
(* The saved-page list.                                                    *)
(***************************************************************************)
\* lines 119-126: what is written to localStorage
compactHistory(list) ==
    [k \in 1 .. Len(list) |->
        [list[k] EXCEPT !.generatedImages = externalImages(list[k].generatedImages)]]

\* The save effect of lines 115-137, after the list changed to list.
persisted(list) == IF Len(list) > 0 THEN compactHistory(list) ELSE storage

isExternalUrl(url) == ~startsWithData(url)

RECURSIVE filterUrls(_)
filterUrls(urls) ==
    IF urls = <<>> THEN <<>>
    ELSE IF isExternalUrl(urls[1]) THEN <<urls[1]>> \o filterUrls(Tail(urls))
    ELSE filterUrls(Tail(urls))

\* lines 326-338
newHistoryItem(st, id, ref) ==
    [id |-> id,
     productData |-> [st.productData EXCEPT !.images = <<>>],
     generatedImages |-> externalImages(st.generatedImages),
     imgRef |-> ref,
     generatedCopy |-> st.generatedCopy,
     copyRef |-> st.copyRef,
     originalImages |-> filterUrls(st.productData.images)]

\* A list that, when full, makes room next to its newest entry.
addToHistoryDropsSecond(prev, item) ==
    IF Len(prev) < historyCap THEN <<item>> \o prev
    ELSE <<item>> \o SubSeq(prev, 2, Len(prev))

\* line 340: [newItem, ...prev].slice(0, 200)
addToHistory(prev, item) ==
    LET list == <<item>> \o prev
    IN  SubSeq(list, 1, Min2(historyCap, Len(list)))

\* saveToHistory, lines 313-342: the alert, or setHistory.
setHistoryWithPage ==
    /\ Gesture
    /\ mounted /\ previewShown
    /\ IF externalImages(state.generatedImages) = <<>>
       THEN /\ lastAlert' = "nothingToSave"
            /\ history' = history
       ELSE /\ lastAlert' = lastAlert
            /\ history' =
                  addToHistory(history,
                               newHistoryItem(state,
                                   freshRef({h.id : h \in Range(history)} \cup {0}),
                                   freshRef(usedImgRefs)))
    /\ UNCHANGED <<state, stateHistory, currentHistoryIndex, isUndoRedoAction,
                   inflight, clipboard, mountVars, runVars, genVars>>

\* saveToHistory and the save effect, whose write succeeds.
saveToHistory ==
    /\ UNCHANGED <<layout, poll, saveEffect>>
    /\ setHistoryWithPage
    /\ storage' = IF history' = history THEN storage ELSE persisted(history')

\* lines 346-357
loadedState(item) ==
    [step |-> "preview",
     productData |-> [item.productData EXCEPT !.images = item.originalImages],
     originalImages |-> item.originalImages,
     generatedImages |-> item.generatedImages, imgRef |-> item.imgRef,
     mainImageIndex |-> 0,
     generatedCopy |-> item.generatedCopy, copyRef |-> item.copyRef,
     isEditingImage |-> FALSE]

\* The saved-page list is opened from the input screen.
loadFromHistory(k) ==
    /\ UNCHANGED <<layout, poll, saveEffect>>
    /\ Gesture
    /\ mounted
    /\ state.step = "input"
    /\ k \in 1 .. Len(history)
    /\ Update(loadedState(history[k]))
    /\ UNCHANGED <<pageVars, lastAlert, runVars, genVars>>

deleteFromHistory(k) ==
    /\ UNCHANGED <<layout, poll, saveEffect>>
    /\ Gesture
    /\ mounted
    /\ state.step = "input"
    /\ k \in 1 .. Len(history)
    /\ history' = [j \in 1 .. (Len(history) - 1) |-> IF j < k THEN history[j] ELSE history[j + 1]]
    /\ storage' = persisted(history')
    /\ UNCHANGED <<state, stateHistory, currentHistoryIndex, isUndoRedoAction,
                   inflight, clipboard, mountVars, lastAlert, runVars, genVars>>

(***************************************************************************)
(* The share link.                                                         *)
(***************************************************************************)
RECURSIVE urlsOf(_)
urlsOf(images) ==
    IF images = <<>> THEN <<>> ELSE <<images[1].url>> \o urlsOf(Tail(images))

\* lines 370-380
shareData(st) ==
    LET ext == externalImages(st.generatedImages)
    IN  [productData |-> st.productData,
         copy |-> st.generatedCopy,
         images |-> urlsOf(SubSeq(ext, 1, Min2(shareImageCap, Len(ext)))),
         mainImageIndex |-> st.mainImageIndex,
         originalImages |-> filterUrls(st.productData.images)]

\* Text whose characters matter is a sequence of code points; a string of the
\* model stands for plain ASCII text without '%', which the codec leaves as
\* it is.
\* encodeURIComponent followed by unescape: the UTF-8 bytes of the text, each
\* as one character (line 389).
utf8(cp) ==
    IF cp < 128 THEN <<cp>>
    ELSE IF cp < 2048 THEN <<192 + (cp \div 64), 128 + (cp % 64)>>
    ELSE IF cp < 65536
    THEN <<224 + (cp \div 4096), 128 + ((cp \div 64) % 64), 128 + (cp % 64)>>
    ELSE <<240 + (cp \div 262144), 128 + ((cp \div 4096) % 64),
           128 + ((cp \div 64) % 64), 128 + (cp % 64)>>

RECURSIVE unescapeEncodeURIComponent(_)
unescapeEncodeURIComponent(text) ==
    IF text = <<>> THEN <<>>
    ELSE utf8(Head(text)) \o unescapeEncodeURIComponent(Tail(text))

\* decodeURIComponent (line 407), applied to what atob returns: a character
\* other than '%' is kept; '%' must start the escapes of one UTF-8 sequence.
Decoded(text) == [ok |-> TRUE, text |-> text]
URIError == [ok |-> FALSE, text |-> <<>>]

isHexDigit(c) == c \in (48 .. 57) \cup (65 .. 70) \cup (97 .. 102)
hexValue(c) == IF c <= 57 THEN c - 48 ELSE IF c <= 70 THEN c - 55 ELSE c - 87

\* The byte escaped at position k of s, or -1 if there is no escape there.
escapeAt(s, k) ==
    IF k + 2 <= Len(s) /\ s[k] = 37 /\ isHexDigit(s[k + 1]) /\ isHexDigit(s[k + 2])
    THEN 16 * hexValue(s[k + 1]) + hexValue(s[k + 2])
    ELSE 0 - 1

\* The length of the UTF-8 sequence a lead byte starts, 0 if it starts none.
sequenceLength(B) ==
    IF B < 128 THEN 1
    ELSE IF B \in 192 .. 223 THEN 2
    ELSE IF B \in 224 .. 239 THEN 3
    ELSE IF B \in 240 .. 247 THEN 4
    ELSE 0

RECURSIVE continuationBits(_, _, _)
continuationBits(s, k, n) ==
    IF n = 0 THEN 0
    ELSE 64 * continuationBits(s, k, n - 1) + (escapeAt(s, k + 3 * n) % 64)

RECURSIVE decodeURIComponentFrom(_, _)
decodeURIComponentFrom(s, k) ==
    IF k > Len(s) THEN Decoded(<<>>)
    ELSE IF s[k] # 37
    THEN LET rest == decodeURIComponentFrom(s, k + 1)
         IN  IF rest.ok THEN Decoded(<<s[k]>> \o rest.text) ELSE URIError
    ELSE LET B == escapeAt(s, k)
             n == IF B < 0 THEN 0 ELSE sequenceLength(B)
         IN  IF n = 0 THEN URIError
             ELSE IF \E j \in 1 .. n - 1 : escapeAt(s, k + 3 * j) \notin 128 .. 191
             THEN URIError
             ELSE LET lead == IF n = 1 THEN B
                              ELSE IF n = 2 THEN B - 192
                              ELSE IF n = 3 THEN B - 224 ELSE B - 240
                      cp == lead * (IF n = 1 THEN 1 ELSE IF n = 2 THEN 64
                                    ELSE IF n = 3 THEN 4096 ELSE 262144)
                            + continuationBits(s, k, n - 1)
                      rest == decodeURIComponentFrom(s, k + 3 * n)
                  IN  IF rest.ok THEN Decoded(<<cp>> \o rest.text) ELSE URIError

decodeURIComponent(s) == decodeURIComponentFrom(s, 1)

\* The copy field of the model that holds such text.
hasText(copy) == "catchphrase" \in DOMAIN copy

\* lines 382-390: the token of the link.  btoa and atob carry the bytes.
encodeShare(data) ==
    [present |-> TRUE,
     json |-> IF hasText(data.copy)
              THEN [data EXCEPT !.copy.catchphrase = unescapeEncodeURIComponent(@)]
              ELSE data]

\* line 407: JSON.parse(decodeURIComponent(atob(shareParam)))
decodeShare(token) ==
    IF "json" \notin DOMAIN token THEN [ok |-> FALSE, json |-> <<>>]
    ELSE IF hasText(token.json.copy)
    THEN LET text == decodeURIComponent(token.json.copy.catchphrase)
         IN  IF text.ok
             THEN [ok |-> TRUE, json |-> [token.json EXCEPT !.copy.catchphrase = text.text]]
             ELSE [ok |-> FALSE, json |-> token.json]
    ELSE [ok |-> TRUE, json |-> token.json]

generateShareLink ==
    /\ UNCHANGED <<layout, poll, saveEffect>>
    /\ Gesture
    /\ mounted /\ previewShown
    /\ clipboard' = encodeShare(shareData(state))
    /\ lastAlert' = lastAlert
    /\ UNCHANGED <<state, stateHistory, currentHistoryIndex, isUndoRedoAction,
                   history, inflight, storage, mountVars, runVars, genVars>>

\* lines 410-424: the state set from the decoded object
sharedState(decoded, iref, cref) ==
    [step |-> "preview",
     productData |-> [decoded.productData EXCEPT !.images = decoded.originalImages],
     originalImages |-> decoded.originalImages,
     generatedImages |-> [k \in 1 .. Len(decoded.images) |->
                             [url |-> decoded.images[k], prompt |-> NoImage.prompt]],
     imgRef |-> iref,
     mainImageIndex |-> decoded.mainImageIndex,
     generatedCopy |-> decoded.copy, copyRef |-> cref,
     isEditingImage |-> FALSE]

\* Links that the application did not make: text that is not base64, base64
\* of text that is not JSON, and the JSON of an object without image list.
ForeignTokens ==
    { [present |-> TRUE, raw |-> "not base64"],
      [present |-> TRUE, raw |-> "not JSON"],
      [present |-> TRUE,
       json |-> [productData |-> emptyProductData, copy |-> NoCopy,
                 mainImageIndex |-> 0, originalImages |-> <<>>]] }

\* A loader that takes a missing image list for an empty one.
loadFromShareLinkLenient(token, st, iref, cref) ==
    IF token.present /\ decodeShare(token).ok
    THEN LET decoded == decodeShare(token).json
         IN  IF "images" \in DOMAIN decoded
             THEN sharedState(decoded, iref, cref)
             ELSE sharedState([images |-> <<>>] @@ decoded, iref, cref)
    ELSE st

\* lines 401-432: the state after loadFromShareLink; an exception of the
\* decoding or of decoded.images.map is caught before setState is called.
loadFromShareLink(token, st, iref, cref) ==
    IF /\ token.present
       /\ decodeShare(token).ok
       /\ "images" \in DOMAIN decodeShare(token).json
    THEN sharedState(decodeShare(token).json, iref, cref)
    ELSE st

\* The page is opened, with a share parameter or without: a new session.
OpenPage(token) ==
    /\ UNCHANGED <<layout, poll, saveEffect>>
    /\ Gesture
    /\ shareParam' = token
    /\ mounted' = FALSE
    /\ state' = initialState
    /\ stateHistory' = <<>>
    /\ currentHistoryIndex' = -1
    /\ isUndoRedoAction' = FALSE
    /\ history' = <<>>
    /\ inflight' = {}
    /\ lastAlert' = "none"
    /\ submitPc' = "idle"
    /\ copyP' = NoPromise
    /\ scenesP' = NoPromise
    /\ selectedPrompts' = <<>>
    /\ items' = <<>>
    /\ chunkStart' = 0
    /\ results' = <<>>
    /\ schedPc' = "idle"
    /\ settled' = <<>>
    /\ UNCHANGED <<clipboard, storage, runId>>

\* JSON.parse of the stored list: new objects
hydrated(stored) ==
    [k \in 1 .. Len(stored) |-> [stored[k] EXCEPT !.imgRef = k, !.copyRef = k]]

\* The mount effects: the saved-page list is read (lines 103-112) and the
\* share parameter consumed (loadFromShareLink, lines 401-432).
Mount ==
    /\ UNCHANGED <<layout, poll, saveEffect>>
    /\ ~mounted
    /\ mounted' = TRUE
    /\ history' = hydrated(storage)
    /\ shareParam' = NoToken
    /\ LET new == loadFromShareLink(shareParam, state,
                                     Len(storage) + 1, Len(storage) + 1)
       IN  IF new # state
           THEN Render(new, FALSE, -1)
           ELSE UNCHANGED <<state, stateHistory, currentHistoryIndex, isUndoRedoAction>>
    /\ UNCHANGED <<inflight, ops, clipboard, storage, lastAlert,
                   runVars, genVars>>

(***************************************************************************)
(* generateVariedScenes in one step: what a run can settle with.           *)
(***************************************************************************)
\* The list a run returns when the calls for the prompts in failed end
\* with the placeholder and the others with the provider's URL.
scenesResult(prompts, failed, run) ==
    [k \in 1 .. Len(prompts) |->
        [url |-> IF k \in failed THEN getFallbackImage ELSE HttpUrl(run, k),
         prompt |-> prompts[k]]]

ScenesReturn(failed, lines) ==
    /\ UNCHANGED <<layout, poll, saveEffect>>
    /\ schedPc = "prompts"
    /\ selectedPrompts' = buildPrompts(state.productData, lines)
    /\ failed \subseteq 1 .. Len(selectedPrompts')
    /\ results' = scenesResult(selectedPrompts', failed, runId)
    /\ schedPc' = "returned"
    /\ scenesP' = Fulfilled
    /\ AfterPromiseAll(copyP, scenesP', copyOf(runId), results')
    /\ UNCHANGED <<envVars, runId, copyP, items, chunkStart, settled>>

ScenesReject(lines) ==
    /\ UNCHANGED <<layout, poll, saveEffect>>
    /\ schedPc = "prompts"
    /\ selectedPrompts' = buildPrompts(state.productData, lines)
    /\ schedPc' = "rejected"
    /\ scenesP' = Rejected(CREDITS_INSUFFICIENT)
    /\ AfterPromiseAll(copyP, scenesP', copyOf(runId), results)
    /\ UNCHANGED <<envVars, runId, copyP, items, chunkStart, results, settled>>

Init ==
    /\ layout = <<>>
    /\ poll = NoPoll
    /\ saveEffect = NoSaveEffect
    /\ state = initialState
    /\ stateHistory = <<>>
    /\ currentHistoryIndex = -1
    /\ isUndoRedoAction = FALSE
    /\ history = <<>>
    /\ inflight = {}
    /\ clipboard = NoToken
    /\ storage = <<>>
    /\ mounted = TRUE
    /\ shareParam = NoToken
    /\ ops = 0
    /\ lastAlert = "none"
    /\ runId = 0
    /\ submitPc = "idle"
    /\ copyP = NoPromise
    /\ scenesP = NoPromise
    /\ selectedPrompts = <<>>
    /\ items = <<>>
    /\ chunkStart = 0
    /\ results = <<>>
    /\ schedPc = "idle"
    /\ settled = <<>>

\* How many usable lines the text backend answers with.
PromptLines == 0 .. MaxLines

NextGen ==
    \/ \E data \in ProductRequests : handleInputSubmit(data)
    \/ \E lines \in PromptLines : ScenePromptsReady(lines)
    \/ \E k \in 1..(CoupangScenes + 1), resp \in ProviderResponses : Attempt(k, resp)
    \/ \E k \in 1..(CoupangScenes + 1) : Resume(k)
    \/ NextChunk
    \/ \E ok \in BOOLEAN : CopySettles(ok)

SpecGen == Init /\ [][NextGen]_vars

\* The submissions and the outcomes of the scene calls explored for the
\* whole application: a Coupang page with a promotion banner.
AppRequests == {d \in ProductRequests : d.platform = "coupang" /\ d.promotionText = "sale"}

\* The text backend gives no usable line: the fallback pool is used.
AppLines == {0}
FailedSets == {{}, {1}}

Next ==
    \/ \E data \in AppRequests : handleInputSubmit(data)
    \/ \E failed \in FailedSets, lines \in AppLines : ScenesReturn(failed, lines)
    \/ \E lines \in AppLines : ScenesReject(lines)
    \/ \E ok \in BOOLEAN : CopySettles(ok)
    \/ \E f, t \in 0 .. CoupangScenes : handleImageReorder(f, t)
    \/ \E i \in 0 .. CoupangScenes : handleMainImageSelect(i)
    \/ handleCopyUpdate("refined")
    \/ \E i \in 0 .. CoupangScenes : StartRegenerate(i)
    \/ \E req \in inflight, resp \in ProviderResponses : FinishRegenerate(req, resp)
    \/ \E i \in 0 .. CoupangScenes : StartEdit(i)
    \/ \E req \in inflight, resp \in ProviderResponses : FinishEdit(req, resp)
    \/ onUndo
    \/ onRedo
    \/ saveToHistory
    \/ \E k \in 1 .. MaxOps : loadFromHistory(k)
    \/ \E k \in 1 .. MaxOps : deleteFromHistory(k)
    \/ generateShareLink
    \/ \E token \in {NoToken, clipboard} : OpenPage(token)
    \/ Mount
    \/ handleReset

Spec == Init /\ [][Next]_vars

(***************************************************************************)
(* DetailPagePreview: the assignment of pool images to the slots of the    *)
(* page (specification SpecSlots).                                         *)
(***************************************************************************)
\* Pool sizes and feature counts of the pages laid out.
MaxPool == 8
MaxFeatures == 4

\* DetailPagePreview.tsx line 674: Math.min(3, remainingImages.length)
detailViewCap == 3

\* An allocator that does not wrap around the pool.
getNextImageNoWrap(imgCursor, totalImages) == imgCursor

\* getNextImage, lines 642-647: the pool index the call number imgCursor gets
getNextImage(imgCursor, totalImages) == imgCursor % totalImages

\* copy.features || []
featuresOf(copy) == IF "features" \in DOMAIN copy THEN copy.features ELSE 0

\* A slot that takes the image before its own, the first slot image 0.
slotOfRepeated(region, n, imgCursor, images) ==
    [region |-> region, n |-> n,
     index |-> getNextImage(Max2(0, imgCursor - 1), Len(images)),
     data |-> At(images, getNextImage(Max2(0, imgCursor - 1), Len(images)))]

\* A slot that shows the image after the one whose index it carries.
slotOfShifted(region, n, imgCursor, images) ==
    [region |-> region, n |-> n,
     index |-> getNextImage(imgCursor, Len(images)),
     data |-> At(images, getNextImage(imgCursor + 1, Len(images)))]

\* One assigned slot: { data: images[index], index }.
slotOf(region, n, imgCursor, images) ==
    [region |-> region, n |-> n,
     index |-> getNextImage(imgCursor, Len(images)),
     data |-> At(images, getNextImage(imgCursor, Len(images)))]

\* Lines 650-679: the slots in the order getNextImage is called for them.
allocateSlots(images, features, promotion) ==
    LET p == IF promotion THEN 1 ELSE 0
        promotionImage == IF promotion THEN <<slotOf("promotion", 0, 0, images)>> ELSE <<>>
        heroImage == slotOf("hero", 0, p, images)
        lifestyleImage == slotOf("lifestyle", 0, p + 1, images)
        featureImages == [k \in 1 .. features |-> slotOf("feature", k, p + 1 + k, images)]
        usageContextImage == slotOf("usage", 0, p + 2 + features, images)
        imgCursor == p + 3 + features
        remainingCount == Max2(0, Len(images) - imgCursor)
        detailViewImageCount == Min2(detailViewCap, remainingCount)
        descriptionExtraCount == Max2(0, remainingCount - detailViewImageCount)
        remainingImages ==
            [i \in 1 .. remainingCount |->
                slotOf(IF i <= descriptionExtraCount THEN "descriptionExtra" ELSE "detailView",
                       i, imgCursor + i - 1, images)]
    IN  promotionImage \o <<heroImage, lifestyleImage>> \o featureImages
            \o <<usageContextImage>> \o remainingImages

\* A copy with the given number of features.
copyWithFeatures(run, features) ==
    [run |-> run, headline |-> "generated", features |-> features]

\* The pages laid out: a preview of M images, F features, with or without a
\* promotion text.
pageState(M, F, text) ==
    [initialState EXCEPT
        !.step = "preview",
        !.productData = [name |-> "p", platform |-> "coupang", promotionText |-> text,
                         images |-> <<SrcImage>>],
        !.originalImages = <<SrcImage>>,
        !.generatedImages = [k \in 1 .. M |-> [url |-> HttpUrl(1, k), prompt |-> ScenePrompt(k)]],
        !.imgRef = 1,
        !.generatedCopy = copyWithFeatures(1, F),
        !.copyRef = 1]

InitSlots ==
    /\ layout = <<>>
    /\ poll = NoPoll
    /\ saveEffect = NoSaveEffect
    /\ \E M \in 1 .. MaxPool, F \in 0 .. MaxFeatures, text \in {"", " ", "sale"} :
          state = pageState(M, F, text)
    /\ stateHistory = <<state>>
    /\ currentHistoryIndex = 0
    /\ isUndoRedoAction = FALSE
    /\ history = <<>>
    /\ inflight = {}
    /\ clipboard = NoToken
    /\ storage = <<>>
    /\ mounted = TRUE
    /\ shareParam = NoToken
    /\ ops = 0
    /\ lastAlert = "none"
    /\ runId = 1
    /\ submitPc = "idle"
    /\ copyP = Fulfilled
    /\ scenesP = Fulfilled
    /\ selectedPrompts = <<>>
    /\ items = <<>>
    /\ chunkStart = 0
    /\ results = state.generatedImages
    /\ schedPc = "returned"
    /\ settled = <<>>

\* DetailPagePreview renders the page.
RenderPreview ==
    /\ previewShown
    /\ layout = <<>>
    /\ layout' = allocateSlots(state.generatedImages, featuresOf(state.generatedCopy),
                               hasPromotion(state.productData))
    /\ UNCHANGED <<appVars, runVars, genVars, poll, saveEffect>>

NextSlots == RenderPreview

SpecSlots == InitSlots /\ [][NextSlots]_vars

(***************************************************************************)
(* The undo/redo timeline on its own: a page saved by an earlier session is *)
(* opened from the saved-page list and its first image replaced again and   *)
(* again, with handleUndo and handleRedo called in between, at the ends of  *)
(* the timeline too.                                                        *)
(***************************************************************************)
MaxEdits == 55

\* The page saved by the earlier session.
savedPage == newHistoryItem(pageState(2, 0, ""), 1, 1)

\* How many times the image at the URL has been replaced.
editVersion(url) == IF url.idx < 0 THEN 0 - url.idx ELSE 0

\* The URL an edit of the image returns.
editedUrl(url) == HttpUrl(url.run, 0 - (editVersion(url) + 1))

\* The arrays still referenced once the replacement is recorded: the
\* snapshots after the cursor are dropped by the recording (line 156), unless
\* the recording is suppressed.
keptImgRefs ==
    LET kept == IF isUndoRedoAction THEN Len(stateHistory)
                ELSE Min2(Max2(currentHistoryIndex + 1, 0), Len(stateHistory))
    IN  {state.imgRef} \cup {stateHistory[k].imgRef : k \in 1 .. kept}
                       \cup {h.imgRef : h \in Range(history)}

\* handleImageUpdate (lines 223-230), called by the preview with the URL of
\* the replacement.
handleImageUpdate(newImageUrl, index) ==
    /\ UNCHANGED <<layout, poll, saveEffect>>
    /\ mounted /\ previewShown
    /\ index \in 0 .. Len(state.generatedImages) - 1
    /\ Update(imageUpdateState(state, newImageUrl, index, freshRef(keptImgRefs)))
    /\ UNCHANGED <<pageVars, ops, lastAlert, runVars, genVars>>

ReplaceFirstImage ==
    /\ previewShown
    /\ editVersion(At(state.generatedImages, 0).url) < MaxEdits
    /\ handleImageUpdate(editedUrl(At(state.generatedImages, 0).url), 0)

InitTimeline ==
    /\ layout = <<>>
    /\ poll = NoPoll
    /\ saveEffect = NoSaveEffect
    /\ state = initialState
    /\ stateHistory = <<>>
    /\ currentHistoryIndex = 0 - 1
    /\ isUndoRedoAction = FALSE
    /\ storage = compactHistory(<<savedPage>>)
    /\ history = hydrated(storage)
    /\ inflight = {}
    /\ clipboard = NoToken
    /\ mounted = TRUE
    /\ shareParam = NoToken
    /\ ops = 0
    /\ lastAlert = "none"
    /\ runId = 0
    /\ submitPc = "idle"
    /\ copyP = NoPromise
    /\ scenesP = NoPromise
    /\ selectedPrompts = <<>>
    /\ items = <<>>
    /\ chunkStart = 0
    /\ results = <<>>
    /\ schedPc = "idle"
    /\ settled = <<>>

NextTimeline ==
    \/ \E k \in 1 .. 1 : loadFromHistory(k)
    \/ ReplaceFirstImage
    \/ handleUndo
    \/ handleRedo

SpecTimeline == InitTimeline /\ [][NextTimeline]_vars

(***************************************************************************)
(* A session that starts with a saved page in the list: the page is opened, *)
(* edited, left by a reset and opened again.                                *)
(***************************************************************************)
NextReopened ==
    \/ \E k \in 1 .. Len(history) : loadFromHistory(k)
    \/ handleReset
    \/ onUndo
    \/ onRedo
    \/ handleCopyUpdate("refined")
    \/ \E f, t \in 0 .. 1 : handleImageReorder(f, t)
    \/ \E i \in 0 .. 1 : handleMainImageSelect(i)

SpecReopened == InitTimeline /\ [][NextReopened]_vars

(***************************************************************************)
(* The share link on its own: a page whose copy holds arbitrary text is     *)
(* shared, and the link opened in a new session.                            *)
(***************************************************************************)
MaxText == 3
MaxShared == 6

\* 'a', '1', '4', '%', '+', e with acute accent, a Hangul syllable
ShareAlphabet == {97, 49, 52, 37, 43, 233, 54620}

Texts == UNION {[1 .. n -> ShareAlphabet] : n \in 0 .. MaxText}

\* A preview of M images, those at failed being placeholders.
sharePage(M, failed, main, text) ==
    [pageState(M, 0, "sale") EXCEPT
        !.generatedImages = [k \in 1 .. M |->
                                IF k \in failed
                                THEN [url |-> getFallbackImage, prompt |-> ScenePrompt(k)]
                                ELSE @[k]],
        !.mainImageIndex = main,
        !.generatedCopy = [run |-> 1, headline |-> "generated", features |-> 0,
                           catchphrase |-> text]]

InitShare ==
    /\ layout = <<>>
    /\ poll = NoPoll
    /\ saveEffect = NoSaveEffect
    /\ \E M \in {2, MaxShared}, failed \in {{}, {1}}, main \in {0, 1}, text \in Texts :
          state = sharePage(M, failed, main, text)
    /\ stateHistory = <<state>>
    /\ currentHistoryIndex = 0
    /\ isUndoRedoAction = FALSE
    /\ history = <<>>
    /\ inflight = {}
    /\ clipboard = NoToken
    /\ storage = <<>>
    /\ mounted = TRUE
    /\ shareParam = NoToken
    /\ ops = 0
    /\ lastAlert = "none"
    /\ runId = 1
    /\ submitPc = "idle"
    /\ copyP = Fulfilled
    /\ scenesP = Fulfilled
    /\ selectedPrompts = <<>>
    /\ items = <<>>
    /\ chunkStart = 0
    /\ results = state.generatedImages
    /\ schedPc = "returned"
    /\ settled = <<>>

NextShare ==
    \/ generateShareLink
    \/ \E token \in {clipboard} \cup ForeignTokens : token.present /\ OpenPage(token)
    \/ Mount

SpecShare == InitShare /\ [][NextShare]_vars

(***************************************************************************)
(* The saved-page list on its own: a session that starts with a list saved  *)
(* earlier, empty, short or full, in which pages are opened, saved and      *)
(* deleted.                                                                 *)
(***************************************************************************)
\* The list after n saves of a page, the newest first.
savedPages(n) ==
    [k \in 1 .. n |-> newHistoryItem(pageState(2, 0, ""), n + 1 - k, k)]

InitSaved ==
    /\ layout = <<>>
    /\ poll = NoPoll
    /\ saveEffect = NoSaveEffect
    /\ state = initialState
    /\ stateHistory = <<>>
    /\ currentHistoryIndex = 0 - 1
    /\ isUndoRedoAction = FALSE
    /\ \E n \in {0, 1, historyCap - 1, historyCap} : storage = compactHistory(savedPages(n))
    /\ history = hydrated(storage)
    /\ inflight = {}
    /\ clipboard = NoToken
    /\ mounted = TRUE
    /\ shareParam = NoToken
    /\ ops = 0
    /\ lastAlert = "none"
    /\ runId = 0
    /\ submitPc = "idle"
    /\ copyP = NoPromise
    /\ scenesP = NoPromise
    /\ selectedPrompts = <<>>
    /\ items = <<>>
    /\ chunkStart = 0
    /\ results = <<>>
    /\ schedPc = "idle"
    /\ settled = <<>>

\* The user picks the newest entry of the list, the next one or the oldest.
NextSaved ==
    \/ \E k \in {1, 2, Len(history)} : loadFromHistory(k)
    \/ saveToHistory
    \/ handleReset
    \/ \E k \in {1, 2, Len(history)} : deleteFromHistory(k)

SpecSaved == InitSaved /\ [][NextSaved]_vars

(***************************************************************************)
(* One call of generateWithRetry with its polling loop stepped: a run with  *)
(* one prompt, whose job the provider answers for check by check.           *)
(***************************************************************************)
\* The job was created (line 26-76) and waitForNanoBananaTask begins.
CreateTask(k) ==
    /\ UNCHANGED <<layout, saveEffect>>
    /\ k \in DOMAIN items
    /\ items[k].pc = "call"
    /\ items' = [items EXCEPT ![k].pc = "polling"]
    /\ poll' = [poll EXCEPT !.attempt = 0]
    /\ UNCHANGED <<appVars, runVars, selectedPrompts, chunkStart, results, schedPc,
                   settled>>

\* One iteration of the loop of lines 123-137: the status check, whose answer
\* is the job's state, and the pause after an answer that is neither success
\* nor fail; line 139 after the last iteration.
PollStatus(k, answer) ==
    /\ UNCHANGED <<layout, saveEffect>>
    /\ k \in DOMAIN items
    /\ items[k].pc = "polling"
    /\ poll.attempt < pollMaxAttempts
    /\ LET checked == [poll EXCEPT !.checks = poll.checks + 1,
                                   !.waiting = poll.waiting /\ answer = "waiting"]
       IN  IF answer = "success"
           THEN /\ poll' = checked
                /\ AttemptEnds(k, Return(HttpUrl(runId, k)))
           ELSE IF answer = "fail"
           THEN /\ poll' = [checked EXCEPT !.thrown = "job"]
                /\ AttemptEnds(k, Throw(Err("job", 0, "generation failed")))
           ELSE IF poll.attempt + 1 < pollMaxAttempts
           THEN /\ poll' = [checked EXCEPT !.attempt = poll.attempt + 1]
                /\ UNCHANGED <<appVars, runVars, genVars>>
           ELSE /\ poll' = [checked EXCEPT !.attempt = poll.attempt + 1,
                                           !.thrown = "timeout"]
                /\ AttemptEnds(k, Throw(Err("timeout", 0, "")))

\* A submission whose prompt list has one prompt, at the launch of its call.
InitPoll ==
    LET data == [name |-> "p", platform |-> "smartstore", promotionText |-> "",
                 images |-> <<SrcImage>>]
    IN  /\ layout = <<>>
        /\ poll = NoPoll
        /\ saveEffect = NoSaveEffect
        /\ state = submitState(initialState, data, 1)
        /\ stateHistory = <<>>
        /\ currentHistoryIndex = 0 - 1
        /\ isUndoRedoAction = FALSE
        /\ history = <<>>
        /\ inflight = {}
        /\ clipboard = NoToken
        /\ storage = <<>>
        /\ mounted = TRUE
        /\ shareParam = NoToken
        /\ ops = 1
        /\ lastAlert = "none"
        /\ runId = 1
        /\ submitPc = "awaiting"
        /\ \E c \in {Pending, Fulfilled} : copyP = c
        /\ scenesP = Pending
        /\ selectedPrompts = buildPrompts(data, 1)
        /\ items = launch(<<>>, 0, selectedPrompts)
        /\ chunkStart = 0
        /\ results = <<>>
        /\ schedPc = "awaitChunk"
        /\ settled = <<>>

NextPoll ==
    \/ \E k \in DOMAIN items : CreateTask(k)
    \/ \E k \in DOMAIN items, answer \in {"waiting", "success", "fail"} : PollStatus(k, answer)
    \/ \E k \in DOMAIN items : Resume(k)

SpecPoll == InitPoll /\ [][NextPoll]_vars /\ WF_vars(NextPoll)

(***************************************************************************)
(* The save effect stepped, with a local storage that has room for a few    *)
(* entries only: its write can fail.                                        *)
(***************************************************************************)
\* An eviction that removes the newest entry.
evictNewest(prev) == SubSeq(prev, 2, Len(prev))

\* line 133: prev.slice(0, Math.max(1, prev.length - 1))
evictOldest(prev) == SubSeq(prev, 1, Max2(1, Len(prev) - 1))

\* saveToHistory; the save effect is due if the list changed.
SavePage ==
    /\ UNCHANGED <<layout, poll>>
    /\ ~saveEffect.due
    /\ setHistoryWithPage
    /\ storage' = storage
    /\ saveEffect' = [saveEffect EXCEPT !.due = history' # history]

\* The save effect runs (lines 115-137): the write, or after its failure
\* setHistory without the last entry, which makes the effect due again.
WriteHistory ==
    /\ UNCHANGED <<layout, poll>>
    /\ saveEffect.due
    /\ IF Len(history) = 0
       THEN /\ saveEffect' = [saveEffect EXCEPT !.due = FALSE]
            /\ UNCHANGED <<history, storage>>
       ELSE IF Len(history) <= saveEffect.room
       THEN /\ storage' = compactHistory(history)
            /\ history' = history
            /\ saveEffect' = [saveEffect EXCEPT !.due = FALSE, !.writes = @ + 1]
       ELSE IF Len(history) > 1
       THEN /\ history' = evictOldest(history)
            /\ storage' = storage
            /\ saveEffect' = [saveEffect EXCEPT !.writes = @ + 1]
       ELSE /\ UNCHANGED <<history, storage>>
            /\ saveEffect' = [saveEffect EXCEPT !.due = FALSE, !.writes = @ + 1]
    /\ UNCHANGED <<state, stateHistory, currentHistoryIndex, isUndoRedoAction,
                   inflight, clipboard, mountVars, ops, lastAlert, runVars, genVars>>

\* Other keys of the origin have filled local storage since the list, of up
\* to MaxStored entries, was written; a page is on show.
InitQuota ==
    /\ layout = <<>>
    /\ poll = NoPoll
    /\ \E room \in 0 .. MaxStored : saveEffect = [NoSaveEffect EXCEPT !.room = room]
    /\ \E M \in 1 .. 2, main \in 0 .. 1 : state = [pageState(M + 1, 0, "") EXCEPT !.mainImageIndex = main,
                                                                              !.imgRef = MaxStored + 1,
                                                                              !.copyRef = MaxStored + 1]
    /\ stateHistory = <<state>>
    /\ currentHistoryIndex = 0
    /\ isUndoRedoAction = FALSE
    /\ \E n \in 0 .. MaxStored : storage = compactHistory(savedPages(n))
    /\ history = hydrated(storage)
    /\ inflight = {}
    /\ clipboard = NoToken
    /\ mounted = TRUE
    /\ shareParam = NoToken
    /\ ops = 0
    /\ lastAlert = "none"
    /\ runId = 1
    /\ submitPc = "idle"
    /\ copyP = Fulfilled
    /\ scenesP = Fulfilled
    /\ selectedPrompts = <<>>
    /\ items = <<>>
    /\ chunkStart = 0
    /\ results = state.generatedImages
    /\ schedPc = "returned"
    /\ settled = <<>>

NextQuota == SavePage \/ WriteHistory

SpecQuota == InitQuota /\ [][NextQuota]_vars /\ WF_vars(WriteHistory)

(***************************************************************************)
(* Claims about the slot allocator (SpecSlots).                            *)
(***************************************************************************)
slotsIn(l, regions) == {k \in 1 .. Len(l) : l[k].region \in regions}

poolSize == Len(state.generatedImages)
fixedDemand == (IF hasPromotion(state.productData) THEN 1 ELSE 0) + 3
                  + featuresOf(state.generatedCopy)

\* C11: a rendered page has exactly one promotion slot iff there is a
\* promotion, one hero, one lifestyle, one slot per feature and one usage
\* slot, and max(0, M - fixed demand) gallery slots; every slot's index is in
\* 0 .. M-1; when the fixed demand exceeds M some index is assigned twice.
C11_SlotDemand ==
    layout # <<>> =>
        /\ Cardinality(slotsIn(layout, {"promotion"}))
              = (IF hasPromotion(state.productData) THEN 1 ELSE 0)
        /\ Cardinality(slotsIn(layout, {"hero"})) = 1
        /\ Cardinality(slotsIn(layout, {"lifestyle"})) = 1
        /\ Cardinality(slotsIn(layout, {"feature"})) = featuresOf(state.generatedCopy)
        /\ Cardinality(slotsIn(layout, {"usage"})) = 1
        /\ Cardinality(slotsIn(layout, {"descriptionExtra", "detailView"}))
              = Max2(0, poolSize - fixedDemand)
        /\ Len(layout) = fixedDemand + Max2(0, poolSize - fixedDemand)
        /\ \A k \in 1 .. Len(layout) : layout[k].index \in 0 .. (poolSize - 1)
        /\ fixedDemand > poolSize =>
              \E j, k \in 1 .. Len(layout) : j # k /\ layout[j].index = layout[k].index

\* Five images, three features, no promotion: six fixed slots, image 0 twice.
C11_Witness ==
    /\ layout # <<>>
    /\ poolSize = 5
    /\ fixedDemand = 6
    /\ Len(layout) = 6
    /\ layout[1].index = 0
    /\ layout[6].index = 0

(***************************************************************************)
(* Claims about the retry executor and the batch scheduler (SpecGen).      *)
(***************************************************************************)
isFailureClass(c) == c \in {"rate", "other", "config", "creditsMessage"}

\* C1: a call whose first k <= 2 attempts failed with rate-limit or other
\* non-credits errors and whose next attempt succeeded has made exactly
\* k + 1 generator calls and resolved to the URL the generator returned,
\* paired with its prompt, not to the placeholder; a call is not given up
\* before its third failure; and no call makes more than 3 generator calls.
C1_RetryUntilSuccess ==
    \A k \in DOMAIN items :
        LET it == items[k]
        IN  /\ it.calls <= 3
            /\ it.last = "ok" =>
                  /\ it.pc = "done"
                  /\ it.attempts \in 0..2
                  /\ it.calls = it.attempts + 1
                  /\ it.result = [url |-> HttpUrl(runId, k), prompt |-> selectedPrompts[k]]
                  /\ it.result.url # getFallbackImage
            /\ (isFailureClass(it.last) /\ it.calls < 3) =>
                  /\ it.pc \in {"backoff", "delay", "call"}
                  /\ it.attempts = it.calls

\* Two failures, one of them a rate limit and one not, then a success.
C1_Witness ==
    \E k \in DOMAIN items :
        /\ items[k].last = "ok"
        /\ items[k].calls = 3
        /\ items[k].rates = 1
        /\ items[k].pc = "done"

\* C2: a call whose latest attempt failed with CREDITS_INSUFFICIENT, on the
\* first attempt or after retryable failures, has thrown: it makes no
\* further attempt, has no result (no placeholder), and the run is rejected
\* with CREDITS_INSUFFICIENT; only such a call throws.
C2_CreditsNotRetried ==
    \A k \in DOMAIN items :
        LET it == items[k]
        IN  /\ it.last = "credits" =>
                  /\ it.pc = "thrown"
                  /\ it.result = NoImage
                  /\ it.calls = it.attempts
                  /\ it.calls <= 3
                  /\ scenesP = Rejected(CREDITS_INSUFFICIENT)
            /\ it.pc = "thrown" => it.last = "credits"

\* Credits exhausted after an earlier retryable failure.
C2_Witness ==
    \E k \in DOMAIN items :
        /\ items[k].pc = "thrown"
        /\ items[k].calls = 2
        /\ \E j \in DOMAIN items : items[j].pc = "thrown" /\ items[j].calls = 1

\* C3: a call whose 3 attempts all failed with non-credits errors has
\* returned the placeholder paired with its original prompt (not the prompt
\* with the uniqueness token that was sent); it has not thrown, and the run
\* is rejected only if some call failed with CREDITS_INSUFFICIENT.
C3_PlaceholderAfterThreeFailures ==
    /\ \A k \in DOMAIN items :
          LET it == items[k]
          IN  (isFailureClass(it.last) /\ it.calls = 3) =>
                  /\ it.pc = "done"
                  /\ it.result = [url |-> getFallbackImage, prompt |-> selectedPrompts[k]]
                  /\ it.result.prompt.token = <<>>
                  /\ it.sent.token = <<k - 1, 2>>
    /\ scenesP.st = "rejected" =>
          /\ scenesP.err = CREDITS_INSUFFICIENT
          /\ \E k \in DOMAIN items : items[k].last = "credits"

\* A run that returned with a placeholder in its list.
C3_Witness ==
    /\ schedPc = "returned"
    /\ \E k \in DOMAIN items :
          /\ items[k].calls = 3
          /\ isFailureClass(items[k].last)
          /\ results[k].url = getFallbackImage

\* C4: a run that returns, returns one image per prompt, element i being the
\* result of the call for prompt i and carrying prompt i, in whatever order
\* the calls of a chunk settled; what has been collected so far is always
\* the results of the completed chunks in prompt order.
C4_OrderPreserved ==
    /\ schedPc = "returned" =>
          /\ Len(results) = Len(selectedPrompts)
          /\ scenesP.st = "fulfilled"
    /\ Len(results) <= Len(selectedPrompts)
    /\ \A i \in 1..Len(results) :
          /\ results[i].prompt = selectedPrompts[i]
          /\ results[i] = items[i].result
          /\ items[i].pc = "done"
    /\ (state.step = "preview" /\ submitPc = "idle" /\ schedPc = "returned") =>
          state.generatedImages = results

\* Two chunks, and the second call of the first chunk settled before the first.
C4_Witness ==
    /\ schedPc = "returned"
    /\ Len(results) = 3
    /\ settled = <<2, 1, 3>>
    /\ state.step = "preview"

\* C5, in every state: once a call has failed with CREDITS_INSUFFICIENT the
\* run is rejected with that error, nothing was returned or committed, and
\* the throwing call belongs to the last chunk launched.
C5_AbortedState ==
    /\ (\E k \in DOMAIN items : items[k].last = "credits") =>
          /\ schedPc = "rejected"
          /\ scenesP = Rejected(CREDITS_INSUFFICIENT)
    /\ schedPc = "rejected" =>
          /\ \E k \in chunkOf(chunkStart, Len(selectedPrompts)) : items[k].pc = "thrown"
          /\ DOMAIN items = 1 .. Min2(chunkStart + BATCH_SIZE, Len(selectedPrompts))
          /\ state.step = "input"
          /\ state.generatedImages = <<>>
          /\ state.generatedCopy = NoCopy
          /\ submitPc = "idle"

\* C5: a run rejected with CREDITS_INSUFFICIENT stays rejected until the
\* next submission, launches no further call and collects nothing more, and
\* whatever its launched calls do afterwards leaves application state alone.
C5_AbortOnCredits ==
    /\ []C5_AbortedState
    /\ [][(schedPc = "rejected" /\ schedPc' # "prompts") =>
            /\ schedPc' = "rejected"
            /\ DOMAIN items' = DOMAIN items
            /\ results' = results
            /\ scenesP' = scenesP
            /\ state' = state
            /\ stateHistory' = stateHistory]_vars

\* After the rejection, another call of the same chunk went on and resolved.
C5_Witness ==
    /\ schedPc = "rejected"
    /\ settled = <<1, 2>>
    /\ items[1].pc = "thrown"
    /\ items[2].pc = "done"
    /\ items[2].calls = 3
    /\ Len(selectedPrompts) = 3
    /\ state.step = "input"

(***************************************************************************)
(* The phases of the application (specification Spec).                     *)
(***************************************************************************)
\* An image the pipeline of submission run returned into its result list.
isSceneImageOf(img, run) ==
    img # NoImage /\ img.url.scheme = "http" /\ img.url.run = run /\ img.url.idx > 0

hasSceneImageOf(images, run) ==
    \E k \in 1 .. Len(images) : isSceneImageOf(images[k], run)

\* A submission was made since the page was loaded.
submittedHere == schedPc # "idle"

C6_Paired ==
    submittedHere =>
        /\ hasSceneImageOf(state.generatedImages, runId) => state.generatedCopy.run = runId
        /\ state.generatedCopy.run = runId =>
              /\ state.generatedImages # <<>>
              /\ \A r \in 1 .. (runId - 1) : ~hasSceneImageOf(state.generatedImages, r)

C6_CommitStep ==
    (state.step = "processing" /\ state'.step = "preview") =>
        /\ copyP' = Fulfilled
        /\ scenesP' = Fulfilled
        /\ state'.generatedImages = results'
        /\ state'.generatedCopy = copyOf(runId)

pageLoad == ~mounted'

C7_Submission ==
    state.step = "input" /\ state'.step = "processing" /\ submitPc' = "awaiting"

C7_PipelineSuccess ==
    /\ state.step = "processing" /\ state'.step = "preview"
    /\ copyP' = Fulfilled /\ scenesP' = Fulfilled

C7_PipelineError ==
    /\ state.step = "processing" /\ state'.step = "input"
    /\ (copyP'.st = "rejected" \/ scenesP'.st = "rejected")

C7_Reset ==
    /\ state.step = "preview" /\ state'.step = "input"
    /\ state'.generatedImages = <<>> /\ state'.generatedCopy = NoCopy

C7_Load ==
    /\ state.step = "input" /\ state'.step = "preview"
    /\ \/ \E k \in 1 .. Len(history) : state' = loadedState(history[k])
       \/ ~mounted /\ mounted'

\* C7 as stated: every change of phase is a submission (input to
\* processing), a pipeline success (processing to preview), a pipeline error
\* (processing to input) or a reset (preview to input); no step goes from
\* input to preview.
C7_FourTransitionsOnly ==
    [][state'.step # state.step /\ ~pageLoad =>
          C7_Submission \/ C7_PipelineSuccess \/ C7_PipelineError \/ C7_Reset]_vars

\* C7, amended: every change of phase is one of the four above or the load of
\* a saved page or of the share token of the address, which goes from input
\* to preview.
C7_PhaseTransitions ==
    [][state'.step # state.step /\ ~pageLoad =>
          C7_Submission \/ C7_PipelineSuccess \/ C7_PipelineError \/ C7_Reset
          \/ C7_Load]_vars

\* A preview shown on a page load on which nothing was submitted.
C7_Witness ==
    /\ mounted
    /\ state.step = "preview"
    /\ ~submittedHere
    /\ state.generatedImages # <<>>

\* C8: the step at which a run fails (the catch of handleInputSubmit) leaves
\* phase input, an empty generatedImages and no generatedCopy.
C8_FailedRunLeavesNothing ==
    [][(submitPc = "awaiting" /\ submitPc' = "idle"
            /\ (copyP'.st = "rejected" \/ scenesP'.st = "rejected")) =>
          /\ state'.step = "input"
          /\ state'.generatedImages = <<>>
          /\ state'.generatedCopy = NoCopy]_vars

\* C9: whenever generatedImages is non-empty, mainImageIndex is an index of it.
C9_MainIndexValid ==
    state.generatedImages # <<>> =>
        state.mainImageIndex \in 0 .. (Len(state.generatedImages) - 1)

\* Where the image at index k is after the image at fromIndex has been taken
\* out and put back at toIndex.
C10_newIndex(k, fromIndex, toIndex) ==
    IF k = fromIndex THEN toIndex
    ELSE LET k1 == IF k > fromIndex THEN k - 1 ELSE k
         IN  IF k1 >= toIndex THEN k1 + 1 ELSE k1

C10_Post(old, new, fromIndex, toIndex) ==
    LET idx == 0 .. (Len(old.generatedImages) - 1)
    IN  /\ Len(new.generatedImages) = Len(old.generatedImages)
        /\ \A k \in idx : C10_newIndex(k, fromIndex, toIndex) \in idx
        /\ \A j, k \in idx :
              j # k => C10_newIndex(j, fromIndex, toIndex) # C10_newIndex(k, fromIndex, toIndex)
        /\ \A k \in idx :
              At(new.generatedImages, C10_newIndex(k, fromIndex, toIndex))
                 = At(old.generatedImages, k)
        /\ At(new.generatedImages, toIndex) = At(old.generatedImages, fromIndex)
        /\ removeAt(new.generatedImages, toIndex) = removeAt(old.generatedImages, fromIndex)
        /\ old.mainImageIndex \in idx =>
              new.mainImageIndex = C10_newIndex(old.mainImageIndex, fromIndex, toIndex)

C10_AllPairs ==
    \A fromIndex, toIndex \in 0 .. (Len(state.generatedImages) - 1) :
        C10_Post(state, reorderState(state, fromIndex, toIndex, state.imgRef),
                 fromIndex, toIndex)

C10_ReorderStep ==
    \A fromIndex, toIndex \in 0 .. (Len(state.generatedImages) - 1) :
        handleImageReorder(fromIndex, toIndex) => C10_Post(state, state', fromIndex, toIndex)

\* C10: for the image list of every reachable state and every pair of its
\* indices, the reorder gives a list of the same length in which every image
\* is at the index the move takes it to (so the list is a permutation, the
\* moved image is at toIndex and the others keep their order), and the new
\* mainImageIndex is the index the move takes the main image to; every step
\* of handleImageReorder does so.
C10_ReorderPermutes == []C10_AllPairs /\ [][C10_ReorderStep]_vars

\* A reorder has moved an image across the main image.
C10_Witness ==
    /\ state.step = "preview"
    /\ Len(state.generatedImages) = 3
    /\ Len(results) = 3
    /\ state.generatedImages = <<results[2], results[3], results[1]>>
    /\ state.mainImageIndex = 0
    /\ ops = 3

(***************************************************************************)
(* Claims about the undo/redo timeline (SpecTimeline).                     *)
(***************************************************************************)
\* The version of the page on show: how often its first image was replaced.
pageVersion == editVersion(At(state.generatedImages, 0).url)

\* The page as it was at version v, whatever array holds its images.
pageAt(v) ==
    LET loaded == loadedState(history[1])
    IN  IF v = 0 THEN [loaded EXCEPT !.imgRef = 0]
        ELSE [imageUpdateState(loaded, HttpUrl(At(loaded.generatedImages, 0).url.run, 0 - v), 0, 0)
                 EXCEPT !.imgRef = 0]

sameSnapshot(snapshot, st) == [snapshot EXCEPT !.imgRef = 0] = st

\* Only the saved page was opened so far: no undo and no redo.
noNavigation == ops = 1 /\ previewShown

\* C12: after N recorded states in a row with no undo or redo (the opened
\* page and N - 1 replacements), the timeline has min(N, 50) entries, which
\* are the most recent min(N, 50) states in the order they were made, and the
\* cursor is on the last entry.
C12_LastFiftyInOrder ==
    noNavigation =>
        LET N == pageVersion + 1
            L == Min2(N, timelineCap)
        IN  /\ Len(stateHistory) = L
            /\ currentHistoryIndex = L - 1
            /\ \A i \in 1 .. L : sameSnapshot(stateHistory[i], pageAt(N - L + i - 1))

C12_Witness ==
    /\ noNavigation
    /\ pageVersion = timelineCap + 2
    /\ Len(stateHistory) = timelineCap
    /\ sameSnapshot(stateHistory[1], pageAt(3))

\* A step that replaces an image while redo is possible.
C13_RecordBelowTail ==
    /\ previewShown /\ ~isUndoRedoAction
    /\ currentHistoryIndex < Len(stateHistory) - 1
    /\ state'.imgRef # state.imgRef
    /\ ops' = ops

C13_Step ==
    C13_RecordBelowTail =>
        /\ stateHistory' = Append(SubSeq(stateHistory, 1, currentHistoryIndex + 1), state')
        /\ currentHistoryIndex' = Len(stateHistory') - 1
        /\ ~(currentHistoryIndex' < Len(stateHistory') - 1)
        /\ Len(stateHistory') <= timelineCap

\* C13: a snapshot recorded while the cursor c is below the tail leaves
\* exactly the entries 0..c followed by the new snapshot, with the cursor on
\* the new tail (no redo), and at most 50 entries.
C13_BranchDiscardsRedo == [][C13_Step]_vars

\* An image replaced two steps back from the tail of a full timeline.
C13_Witness ==
    /\ previewShown
    /\ pageVersion = timelineCap + 1
    /\ Len(stateHistory) = timelineCap - 1
    /\ currentHistoryIndex = timelineCap - 2

(***************************************************************************)
(* Claims about undo and redo in a session with a saved page               *)
(* (SpecReopened).                                                         *)
(***************************************************************************)
C14_Navigation == handleUndo \/ handleRedo

C14_Step ==
    C14_Navigation =>
        /\ stateHistory' = stateHistory
        /\ isUndoRedoAction' = FALSE

\* C14: an undo or redo leaves the timeline as it is, and the suppression
\* flag is cleared once the restored state has been rendered, so that the
\* next edit is recorded.
C14_SuppressedOnce == [][C14_Step]_vars

(***************************************************************************)
(* Claims about handleUndo and handleRedo (SpecTimeline).                  *)
(***************************************************************************)
C15_Unchanged == UNCHANGED <<state, stateHistory, currentHistoryIndex, isUndoRedoAction>>

C15_Restored(index) ==
    /\ currentHistoryIndex' = index
    /\ state' = stateHistory[index + 1]

C15_Step ==
    /\ handleUndo =>
          IF currentHistoryIndex <= 0 THEN C15_Unchanged
          ELSE C15_Restored(currentHistoryIndex - 1)
    /\ handleRedo =>
          IF currentHistoryIndex >= Len(stateHistory) - 1 THEN C15_Unchanged
          ELSE C15_Restored(currentHistoryIndex + 1)

\* C15: handleUndo at cursor 0 and handleRedo at the tail change nothing;
\* otherwise undo moves the cursor down by one and redo up by one, and the
\* snapshot at the new cursor becomes the current state.
C15_UndoRedoBounds == [][C15_Step]_vars

\* An undo from the second entry, and one more call at cursor 0.
C15_Witness ==
    /\ ops = 3
    /\ currentHistoryIndex = 0
    /\ Len(stateHistory) = 2
    /\ state = stateHistory[1]

(***************************************************************************)
(* Claims about the recording of edits (Spec).                             *)
(***************************************************************************)
\* What an edit of the preview changes: the images, their order, the main
\* image and the copy.
pageContent(st) == <<st.generatedImages, st.mainImageIndex, st.generatedCopy>>

\* A step inside the preview, other than undo and redo, that changes the page.
C16_Mutation ==
    /\ previewShown /\ previewShown'
    /\ ~isUndoRedoAction
    /\ ~(onUndo \/ onRedo)
    /\ pageContent(state') # pageContent(state)

C16_Step ==
    C16_Mutation =>
        /\ stateHistory' = recordSnapshot(stateHistory, currentHistoryIndex, state')
        /\ currentHistoryIndex' = Min2(currentHistoryIndex + 1, maxHistoryIndex)
        /\ stateHistory'[currentHistoryIndex' + 1] = state'

\* C16: every edit of the preview (replace an image, reorder, select the main
\* image, replace a copy field, regenerate) appends one snapshot after the
\* cursor, so that the snapshot at the cursor is the current state.
C16_EveryEditRecorded == [][C16_Step]_vars

(***************************************************************************)
(* Claims about the share link (SpecShare).                                *)
(***************************************************************************)
\* The state a new session gets from the link made of st.
C17_Decoded(st) == decodeShare(encodeShare(shareData(st)))

C17_Restored(st) == sharedState(C17_Decoded(st).json, 0, 0)

\* C17: for every preview state, decoding the token made by generateShareLink
\* gives a preview state with the same product request apart from the source
\* images, the same copy whatever its text, the same mainImageIndex and at
\* most 4 images, none a data: URL.
C17_ShareRoundTrip ==
    previewShown =>
        /\ C17_Decoded(state).ok
        /\ C17_Restored(state).step = "preview"
        /\ [C17_Restored(state).productData EXCEPT !.images = <<>>]
              = [state.productData EXCEPT !.images = <<>>]
        /\ C17_Restored(state).generatedCopy = state.generatedCopy
        /\ C17_Restored(state).mainImageIndex = state.mainImageIndex
        /\ Len(C17_Restored(state).generatedImages) <= shareImageCap
        /\ \A k \in 1 .. Len(C17_Restored(state).generatedImages) :
              ~startsWithData(C17_Restored(state).generatedImages[k].url)

(***************************************************************************)
(* Claims about the errors that reach the retry executor (SpecGen).        *)
(***************************************************************************)
\* C18: a call that failed because no API key is configured is not retried
\* and gets no placeholder: it fails the run at its first attempt, and the
\* application does not show the preview of that run.
C18_MissingKeyFailsAtOnce ==
    \A k \in DOMAIN items :
        items[k].last = "config" =>
            /\ items[k].calls = 1
            /\ items[k].pc = "thrown"
            /\ items[k].result = NoImage
            /\ state.step # "preview"

\* C19: a provider failure whose message tells of exhausted credits, at the
\* creation of the job or as the failure message of the polled job, reaches
\* the executor as CREDITS_INSUFFICIENT, so the call is not retried and gets
\* no placeholder.
C19_CreditsAlwaysDistinct ==
    \A k \in DOMAIN items :
        /\ items[k].last # "creditsMessage"
        /\ items[k].last = "credits" =>
              /\ items[k].pc = "thrown"
              /\ items[k].result = NoImage

(***************************************************************************)
(* Claims about the promotion image (SpecGen).                             *)
(***************************************************************************)
isPromotionImage(image) == image.prompt = promoPrompt

\* C20: the list a run returns starts with the image of the promotion prompt,
\* which is its only promotion image, if the submitted promotionText is not
\* blank, and holds no promotion image if it is blank; on both platforms,
\* with custom and with fallback scene prompts.
C20_PromotionFirst ==
    schedPc = "returned" =>
        IF hasPromotion(state.productData)
        THEN /\ Len(results) >= 1
             /\ isPromotionImage(results[1])
             /\ \A k \in 2 .. Len(results) : ~isPromotionImage(results[k])
        ELSE \A k \in 1 .. Len(results) : ~isPromotionImage(results[k])

\* A smartstore run with a promotion and custom scene prompts.
C20_Witness ==
    /\ schedPc = "returned"
    /\ state.productData.platform = "smartstore"
    /\ hasPromotion(state.productData)
    /\ Len(results) = 2
    /\ isPromotionImage(results[1])
    /\ results[2].prompt = CustomPrompt(1)

(***************************************************************************)
(* Claims about the message of a failed run (SpecGen).                     *)
(***************************************************************************)
\* The run submitted last has failed and the application is back at input.
C21_RunFailed ==
    /\ runId > 0
    /\ submitPc = "idle"
    /\ state.step = "input"

\* C21: the message shown for a failed run is the insufficient-credits
\* message if the run's image generation raised CREDITS_INSUFFICIENT, and the
\* generic message otherwise, whichever of the two generations failed first.
C21_MessageOfFailedRun ==
    C21_RunFailed =>
        lastAlert = IF scenesP = Rejected(CREDITS_INSUFFICIENT) THEN "credits"
                    ELSE "generic"

(***************************************************************************)
(* Claims about the saved-page list (Spec).                                *)
(***************************************************************************)
idsOf(list) == [k \in 1 .. Len(list) |-> list[k].id]

\* C22: once the application is mounted, local storage holds the persisted
\* form of the current saved-page list: the same pages in the same order,
\* none when the list is empty.
C22_StorageFollowsList ==
    mounted =>
        /\ idsOf(storage) = idsOf(history)
        /\ \A k \in 1 .. Len(storage) :
              storage[k].generatedImages = externalImages(history[k].generatedImages)

(***************************************************************************)
(* Claims about the capacity of the saved-page list (SpecSaved).           *)
(***************************************************************************)
C23_Saved ==
    /\ Len(history') = Min2(Len(history) + 1, historyCap)
    /\ history'[1].id \notin {history[k].id : k \in 1 .. Len(history)}
    /\ SubSeq(history', 2, Len(history')) = SubSeq(history, 1, Len(history') - 1)

C23_Deleted ==
    \E k \in 1 .. Len(history) :
        history' = SubSeq(history, 1, k - 1) \o SubSeq(history, k + 1, Len(history))

C23_Step ==
    /\ Len(history') <= historyCap
    /\ history' # history => (C23_Saved \/ C23_Deleted)
    /\ (saveToHistory /\ history' # history) => C23_Saved
    /\ (\E k \in 1 .. Len(history) : deleteFromHistory(k)) => C23_Deleted

C24_UrlsOf(json) ==
    Range(json.images) \cup Range(json.originalImages) \cup Range(json.productData.images)

\* C24: no field of the JSON object encoded into a share token holds a data:
\* URL: the product request is there without its source images, which appear
\* only in originalImages, as external URLs.
C24_TokenWithoutImageData ==
    clipboard.present =>
        /\ \A url \in C24_UrlsOf(clipboard.json) : ~startsWithData(url)
        /\ clipboard.json.productData.images = <<>>

C25_Undecodable(token) ==
    \/ "json" \notin DOMAIN token
    \/ "images" \notin DOMAIN token.json
    \/ ~decodeShare(token).ok

C25_Step ==
    (Mount /\ shareParam.present /\ C25_Undecodable(shareParam)) =>
        /\ state = initialState
        /\ state' = initialState
        /\ stateHistory' = <<>>
        /\ currentHistoryIndex' = 0 - 1
        /\ lastAlert' = "none"

\* C25: a startup with a share parameter that cannot be decoded (not base64,
\* not JSON, JSON without image list, malformed percent sequence) leaves the
\* default input state as it is, records nothing in the timeline and shows
\* no message.
C25_BadShareIgnored == [][C25_Step]_vars

\* The application has started with a link it did not make.
C25_Witness ==
    /\ mounted
    /\ ops = 1
    /\ ~shareParam.present
    /\ state = initialState

(***************************************************************************)
(* Claims about a single-image regenerate (Spec).                          *)
(***************************************************************************)
C26_Answered ==
    \E req \in inflight, resp \in ProviderResponses : FinishRegenerate(req, resp)

C26_Step ==
    C26_Answered =>
        /\ ~state'.isEditingImage
        /\ lastAlert' = "regenerateFailed" =>
              /\ state'.generatedImages = state.generatedImages
              /\ state'.mainImageIndex = state.mainImageIndex
        /\ \A k \in 1 .. Len(state'.generatedImages) :
              isSvgPlaceholder(state'.generatedImages[k].url) =>
                  state'.generatedImages[k] = state.generatedImages[k]

\* C26: the answer to a regenerate ends the editing; a failure is reported
\* and leaves generatedImages and mainImageIndex as they were; no answer puts
\* the placeholder graphic where the pool had another image.
C26_RegenerateNeverPlaceholder == [][C26_Step]_vars

(***************************************************************************)
(* Claims about the two galleries (SpecSlots).                             *)
(***************************************************************************)
C27_Leftover == Max2(0, poolSize - fixedDemand)

\* C27: of the pool images left after the fixed slots, the detail gallery
\* gets min(3, leftover) and they are the first in pool order, at the pool
\* indices fixedDemand .. fixedDemand + 2; the later ones go to the extra
\* gallery.
C27_DetailGalleryFirst ==
    layout # <<>> =>
        /\ Cardinality(slotsIn(layout, {"detailView"})) = Min2(detailViewCap, C27_Leftover)
        /\ \A k \in slotsIn(layout, {"detailView"}) :
              layout[k].index < fixedDemand + detailViewCap
        /\ \A k \in slotsIn(layout, {"descriptionExtra"}) :
              layout[k].index >= fixedDemand + detailViewCap

(***************************************************************************)
(* Claims about reset (Spec).                                              *)
(***************************************************************************)
C28_Step ==
    handleReset =>
        /\ state'.step = "input"
        /\ state'.productData = emptyProductData
        /\ state'.productData.images = <<>>
        /\ state'.originalImages = <<>>
        /\ state'.generatedImages = <<>>
        /\ state'.mainImageIndex = 0
        /\ state'.generatedCopy = NoCopy
        /\ ~state'.isEditingImage

\* C28: reset, from every state that offers it, sets the phase to input, the
\* product request to the empty one, originalImages and generatedImages to
\* empty lists, mainImageIndex to 0, the copy to none and isEditingImage to
\* false.
C28_ResetToDefaults == [][C28_Step]_vars

\* A reset pressed while a regenerate was waiting for its answer.
C28_Witness ==
    /\ state.step = "input"
    /\ state = resetState(state.imgRef)
    /\ inflight # {}
    /\ copyP = Fulfilled
    /\ scenesP = Fulfilled

(***************************************************************************)
(* Claims about the chunks of the batch scheduler (SpecGen).               *)
(***************************************************************************)
\* C29: the calls launched so far are those of the prompts 1 .. chunkStart +
\* BATCH_SIZE (or all of them, in the last chunk), chunkStart is a multiple
\* of BATCH_SIZE, and every call of an earlier chunk has resolved, retries
\* included, before a call of the current chunk exists; a run returns only
\* from its last chunk.
C29_ChunksInOrder ==
    schedPc \in {"awaitChunk", "pause", "returned", "rejected"} =>
        /\ chunkStart % BATCH_SIZE = 0
        /\ chunkStart < Len(selectedPrompts)
        /\ DOMAIN items = 1 .. Min2(chunkStart + BATCH_SIZE, Len(selectedPrompts))
        /\ \A k \in DOMAIN items : k <= chunkStart => items[k].pc = "done"
        /\ schedPc = "returned" => chunkStart + BATCH_SIZE >= Len(selectedPrompts)

\* BATCH_SIZE + 1 prompts: the second chunk has one call, launched after the
\* first chunk's calls resolved, one of them at its third attempt.
C29_Witness ==
    /\ schedPc = "awaitChunk"
    /\ Len(selectedPrompts) = BATCH_SIZE + 1
    /\ chunkStart = BATCH_SIZE
    /\ items[1].calls = maxAttempts
    /\ items[BATCH_SIZE + 1].pc = "delay"

(***************************************************************************)
(* Claims about the polling loop (SpecPoll).                               *)
(***************************************************************************)
C30_Call == items[1]

C30_Bounds ==
    /\ poll.attempt <= 60
    /\ poll.checks <= 3 * 60
    /\ poll.thrown = "timeout" => C30_Call.attempts > 0

\* While every status check has been answered with a pending job.
C30_Pending ==
    poll.waiting =>
        /\ poll.checks = 60 * C30_Call.attempts
                            + (IF C30_Call.pc = "polling" THEN poll.attempt ELSE 0)
        /\ C30_Call.attempts > 0 =>
              /\ poll.thrown = "timeout"
              /\ C30_Call.last = "other"
        /\ C30_Call.pc # "thrown"
        /\ C30_Call.pc = "done" =>
              /\ C30_Call.attempts = 3
              /\ C30_Call.result = [url |-> getFallbackImage, prompt |-> C30_Call.prompt]
              /\ poll.checks = 3 * 60
        /\ C30_Call.attempts < 3 => C30_Call.pc # "done"

C30_Resolved == C30_Call.pc \in {"done", "thrown"}

\* C30: a wait makes at most 60 status checks; when the job stays pending it
\* makes exactly 60 and ends with the timeout error, not the provider's
\* failure; the retry executor retries after it like after another failure,
\* and the call ends with the placeholder after its third wait, 3 x 60 status
\* checks in all; every call resolves.
C30_PendingJobTimesOut == []C30_Bounds /\ []C30_Pending /\ <>C30_Resolved

\* Three waits have timed out.
C30_Witness ==
    /\ poll.waiting
    /\ poll.thrown = "timeout"
    /\ poll.checks = 3 * 60
    /\ C30_Call.pc = "done"
    /\ C30_Call.result.url = getFallbackImage
    /\ schedPc = "returned"

(***************************************************************************)
(* Claims about the length of the prompt list (SpecGen).                   *)
(***************************************************************************)
C31_Preset ==
    sceneCount(state.productData.platform)
        + (IF hasPromotion(state.productData) THEN 1 ELSE 0)

\* C31: whatever the text backend answered (failure, no usable line, any
\* number of usable lines), the prompt list of a run has the platform's
\* number of scene prompts, plus the promotion prompt if a promotion text was
\* given, and a run that returns gives as many images.
C31_PresetNumberOfPrompts ==
    /\ schedPc \in {"awaitChunk", "pause", "returned", "rejected"} =>
          Len(selectedPrompts) = C31_Preset
    /\ schedPc = "returned" => Len(results) = C31_Preset

(***************************************************************************)
(* Claims about the order of the slots (SpecSlots).                        *)
(***************************************************************************)
\* The region of the slot requested j-th, j counted from 0.
C32_RegionOf(j) ==
    LET p == IF hasPromotion(state.productData) THEN 1 ELSE 0
        F == featuresOf(state.generatedCopy)
    IN  IF j < p THEN {"promotion"}
        ELSE IF j = p THEN {"hero"}
        ELSE IF j = p + 1 THEN {"lifestyle"}
        ELSE IF j <= p + 1 + F THEN {"feature"}
        ELSE IF j = p + 2 + F THEN {"usage"}
        ELSE {"descriptionExtra", "detailView"}

\* C32: the slot requested k-th in the order promotion (if any), hero,
\* lifestyle, feature 1..F, usage, leftovers (k from 0) has pool index
\* k mod M and the image at that index; the assignment is the one computed
\* from the pool, the number of features and the promotion flag alone.
C32_SlotOrder ==
    layout # <<>> =>
        /\ \A k \in 1 .. Len(layout) :
              /\ layout[k].region \in C32_RegionOf(k - 1)
              /\ layout[k].index = (k - 1) % poolSize
              /\ layout[k].data = state.generatedImages[((k - 1) % poolSize) + 1]
        /\ \A k \in slotsIn(layout, {"feature"}) : layout[k].n = k - (fixedDemand - 2 - featuresOf(state.generatedCopy)) - 1
        /\ layout = allocateSlots(state.generatedImages, featuresOf(state.generatedCopy),
                                  hasPromotion(state.productData))

\* Two images, a promotion and four features: eight slots, the pool used
\* four times over.
C32_Witness ==
    /\ layout # <<>>
    /\ poolSize = 2
    /\ Len(layout) = 8
    /\ layout[1].region = "promotion"
    /\ layout[8].region = "usage"
    /\ layout[8].index = 1

(***************************************************************************)
(* Claims about a local storage that is full (SpecQuota).                  *)
(***************************************************************************)
C33_Step ==
    (WriteHistory /\ history' # history) =>
        /\ Len(history) > saveEffect.room
        /\ Len(history') = Len(history) - 1
        /\ \A k \in 1 .. Len(history') : history'[k] = history[k]
        /\ saveEffect'.due
        /\ storage' = storage

C33_OneLeft == saveEffect.writes > 0 => Len(history) >= 1

\* C33: a failed write of the saved-page list removes exactly the last, the
\* oldest, entry and leaves the effect due, so the write is attempted again;
\* the newest entry is never removed, at least one entry is left, and the
\* effect comes to rest.
C33_EvictOldestAndRetry ==
    /\ [][C33_Step]_vars
    /\ []C33_OneLeft
    /\ (saveEffect.due ~> ~saveEffect.due)

\* No room at all: the page saved to a list of MaxStored is the one left
\* after MaxStored evictions and a last failed write.
C33_Witness ==
    /\ ops = 1
    /\ ~saveEffect.due
    /\ saveEffect.room = 0
    /\ saveEffect.writes = MaxStored + 1
    /\ Len(history) = 1
    /\ history[1].id = MaxStored + 1
    /\ Len(storage) = MaxStored

(***************************************************************************)
(* Claims about answers that arrive late (Spec).                           *)
(***************************************************************************)
C34_Answer(req) ==
    \E resp \in ProviderResponses : FinishRegenerate(req, resp) \/ FinishEdit(req, resp)

C34_Step ==
    \A req \in inflight :
        C34_Answer(req) =>
            \A k \in 1 .. Min2(Len(state.generatedImages), Len(state'.generatedImages)) :
                state'.generatedImages[k] # state.generatedImages[k] =>
                    state.generatedImages[k].prompt = req.prompt

\* C34: the answer to a regenerate or an AI edit changes no image but the one
\* the request was made for, which is the image with the request's prompt,
\* wherever a reorder, an undo or a redo has put it meanwhile.
C34_AnswerGoesToItsImage == [][C34_Step]_vars

\* C35: while the phase is input or processing, generatedImages is empty: an
\* answer to a regenerate or an AI edit that arrives after a reset writes no
\* image.
C35_NoImagesOutsidePreview ==
    state.step \in {"input", "processing"} => state.generatedImages = <<>>

(***************************************************************************)
(* Claims about undo followed by redo (Spec).                              *)
(***************************************************************************)
\* At an undo: the redo button is enabled afterwards, and the redo shows the
\* page that was on show before the undo, at the cursor it had.
C36_Step ==
    onUndo =>
        /\ stateHistory' = stateHistory
        /\ currentHistoryIndex' + 1 = currentHistoryIndex
        /\ currentHistoryIndex' < Len(stateHistory') - 1
        /\ LET redone == redoSnapshot(stateHistory', currentHistoryIndex')
           IN  /\ redone.generatedImages = state.generatedImages
               /\ redone.generatedCopy = state.generatedCopy
               /\ redone.mainImageIndex = state.mainImageIndex

\* C36: an undo followed at once by a redo shows the page as it was before
\* the undo, with the same generatedImages, generatedCopy and mainImageIndex,
\* and leaves the timeline and the cursor as they were.
C36_UndoThenRedoRestores == [][C36_Step]_vars

(***************************************************************************)
(* Claims about the timeline after a reset (Spec).                         *)
(***************************************************************************)
\* The submission a page was generated by.
C37_RunOf(st) == st.generatedCopy.run

C37_Step == onUndo => C37_RunOf(state') = C37_RunOf(state)

\* C37: an undo never shows a page of an earlier submission than the one on
\* show: the timeline of the page generated after a reset holds nothing that
\* was recorded before the reset.
C37_UndoStaysAfterReset == [][C37_Step]_vars

(***************************************************************************)
(* Claims about the shape of the timeline (SpecTimeline).                  *)
(***************************************************************************)
\* C38: the cursor is at least -1 and below the length of the timeline, which
\* is at most 50; the cursor is -1 exactly when the timeline is empty; every
\* snapshot has phase preview and at least one generated image.
C38_TimelineShape ==
    /\ currentHistoryIndex >= 0 - 1
    /\ currentHistoryIndex < Len(stateHistory)
    /\ Len(stateHistory) <= timelineCap
    /\ (currentHistoryIndex = 0 - 1) <=> (stateHistory = <<>>)
    /\ \A k \in 1 .. Len(stateHistory) :
          /\ stateHistory[k].step = "preview"
          /\ Len(stateHistory[k].generatedImages) > 0

\* A full timeline with the cursor two undos below its end.
C38_Witness ==
    /\ Len(stateHistory) = timelineCap
    /\ currentHistoryIndex = timelineCap - 3
    /\ pageVersion > timelineCap
    /\ state = stateHistory[timelineCap - 2]

(***************************************************************************)
(* Claims about a pool that covers the fixed demand (SpecSlots).           *)
(***************************************************************************)
\* C39: when the pool has at least as many images as the fixed slots need,
\* every pool index 0 .. M-1 is assigned to exactly one slot, fixed or of one
\* of the two galleries.
C39_EveryImageOnce ==
    (layout # <<>> /\ poolSize >= fixedDemand) =>
        \A i \in 0 .. (poolSize - 1) :
            Cardinality({k \in 1 .. Len(layout) : layout[k].index = i}) = 1

\* Eight images, a promotion and no feature: four fixed slots, one image in
\* the extra gallery and three in the detail gallery.
C39_Witness ==
    /\ layout # <<>>
    /\ poolSize = 8
    /\ fixedDemand = 4
    /\ Cardinality(slotsIn(layout, {"descriptionExtra"})) = 1
    /\ Cardinality(slotsIn(layout, {"detailView"})) = 3
    /\ layout[8].index = 7

====
